---- MODULE Spec2Model ----
(***************************************************************************)
(* A model of the MSBuild project document editor of semitone:            *)
(* src/src/internal/cache.ts (class Csproj, cheerio variant) and          *)
(* src/unnamed/part_001 (utils: isWhitespace, trimBefore, trimAfter,      *)
(* trimEnd, detectIndent, getNodes).                                      *)
(*                                                                         *)
(* Text is a sequence of tokens: a token is one character of character    *)
(* data or one piece of markup.  A string of character data (the data of  *)
(* a Text node, an indentation unit) is a sequence of characters.         *)
(***************************************************************************)
EXTENDS Integers, Sequences, FiniteSets, TLC

(***************************************************************************)
(* Characters.  The whitespace characters are those String.trim() strips. *)
(***************************************************************************)
LF == "LF"
CR == "CR"
SP == "SP"
TAB == "TAB"
NonWs == "x"
WsChars == {LF, CR, SP, TAB}

Front(s) == SubSeq(s, 1, Len(s) - 1)
Last(s) == s[Len(s)]

RECURSIVE Repeat(_, _)
\* String.prototype.repeat
Repeat(s, n) == IF n <= 0 THEN <<>> ELSE s \o Repeat(s, n - 1)

RECURSIVE TrimStart(_)
TrimStart(s) == IF s # <<>> /\ Head(s) \in WsChars THEN TrimStart(Tail(s)) ELSE s

RECURSIVE TrimRight(_)
TrimRight(s) == IF s # <<>> /\ Last(s) \in WsChars THEN TrimRight(Front(s)) ELSE s

\* String.prototype.trim
Trim(s) == TrimRight(TrimStart(s))

\* whether sub occurs in s at position i
OccursAt(s, sub, i) == i + Len(sub) - 1 <= Len(s) /\ SubSeq(s, i, i + Len(sub) - 1) = sub

\* String.prototype.replace(pattern, "") with a string pattern: the first
\* occurrence of the pattern, wherever it is, is removed
ReplaceFirst(s, sub) ==
  LET hits == {i \in 1..Len(s) : OccursAt(s, sub, i)}
  IN IF sub = <<>> \/ hits = {} THEN s
     ELSE LET i == CHOOSE j \in hits : \A h \in hits : j <= h
          IN SubSeq(s, 1, i - 1) \o SubSeq(s, i + Len(sub), Len(s))

(***************************************************************************)
(* DOM nodes (domhandler): the document root, directives, tags and text.  *)
(* attribs is the ordered list of <<name, value>> pairs of a tag.         *)
(***************************************************************************)
Text(data) == [type |-> "text", name |-> "", data |-> data, attribs |-> <<>>, children |-> <<>>]
Element(name, attribs, children) == [type |-> "tag", name |-> name, data |-> <<>>, attribs |-> attribs, children |-> children]
Comment(data) == [type |-> "comment", name |-> "", data |-> data, attribs |-> <<>>, children |-> <<>>]
Directive(name) == [type |-> "directive", name |-> name, data |-> <<>>, attribs |-> <<>>, children |-> <<>>]
Document(children) == [type |-> "root", name |-> "", data |-> <<>>, attribs |-> <<>>, children |-> children]

HasAttr(node, a) == \E i \in 1..Len(node.attribs) : node.attribs[i][1] = a
Attr(node, a) == node.attribs[CHOOSE i \in 1..Len(node.attribs) : node.attribs[i][1] = a][2]

(***************************************************************************)
(* Tokens of XML text: a tuple of the token's kind, its name or          *)
(* character data, and for a tag its attributes; a self-closing tag ends  *)
(* with the text it is closed with, "/>" or " />".  A text is a sequence  *)
(* of tokens in which no two character data tokens are adjacent.          *)
(***************************************************************************)
TextTok(s) == <<"text", s>>
DeclTok(d) == <<"decl", d>>
CommentTok(d) == <<"comment", d>>
OpenTok(n, a) == <<"open", n, a>>
CloseTok(n) == <<"close", n>>
EmptyTok(n, a, closing) == <<"empty", n, a, closing>>
Kind(t) == t[1]

\* the text of a string of characters
Chars(s) == IF s = <<>> THEN <<>> ELSE <<TextTok(s)>>

\* the concatenation of two texts
Cat(a, b) ==
  IF a # <<>> /\ b # <<>> /\ Kind(Last(a)) = "text" /\ Kind(Head(b)) = "text"
  THEN Front(a) \o <<TextTok(Last(a)[2] \o Head(b)[2])>> \o Tail(b)
  ELSE a \o b

(***************************************************************************)
(* Parsing (cheerio loadBuffer with xml: true, i.e. htmlparser2 feeding a *)
(* domhandler): a stack of open elements; character data is appended to   *)
(* the last node when that is a Text node, so a parsed tree never holds   *)
(* two adjacent Text nodes.                                                *)
(***************************************************************************)
\* domhandler ontext: extend the last Text node or add a new one
AddText(children, data) ==
  IF children # <<>> /\ Last(children).type = "text"
  THEN [children EXCEPT ![Len(children)].data = @ \o data]
  ELSE Append(children, Text(data))

\* add a finished node to the element on top of the stack
AddNode(stack, node) == [stack EXCEPT ![Len(stack)].children = Append(@, node)]

RECURSIVE ParseFrom(_, _, _)
ParseFrom(toks, i, stack) ==
  IF i > Len(toks)
  THEN \* onend: the elements still open are closed
       IF Len(stack) = 1 THEN stack[1]
       ELSE ParseFrom(toks, i, AddNode(Front(stack), Last(stack)))
  ELSE LET t == toks[i] IN
       CASE Kind(t) = "text" -> ParseFrom(toks, i + 1, [stack EXCEPT ![Len(stack)].children = AddText(@, t[2])])
         [] Kind(t) = "decl" -> ParseFrom(toks, i + 1, AddNode(stack, Directive(t[2])))
         [] Kind(t) = "comment" -> ParseFrom(toks, i + 1, AddNode(stack, Comment(t[2])))
         [] Kind(t) = "open" -> ParseFrom(toks, i + 1, Append(stack, Element(t[2], t[3], <<>>)))
         [] Kind(t) = "empty" -> ParseFrom(toks, i + 1, AddNode(stack, Element(t[2], t[3], <<>>)))
         [] Kind(t) = "close" ->
              IF Len(stack) > 1 /\ Last(stack).name = t[2]
              THEN ParseFrom(toks, i + 1, AddNode(Front(stack), Last(stack)))
              ELSE ParseFrom(toks, i + 1, stack)
         [] OTHER -> ParseFrom(toks, i + 1, stack)

Parse(toks) == ParseFrom(toks, 1, <<Document(<<>>)>>)

(***************************************************************************)
(* Rendering (cheerio .xml(), i.e. dom-serializer in xmlMode): a tag      *)
(* without children is self-closing, written without a space.             *)
(***************************************************************************)
RECURSIVE RenderAll(_)
RenderNode(node) ==
  CASE node.type = "text" -> Chars(node.data)
    [] node.type = "directive" -> <<DeclTok(node.name)>>
    [] node.type = "comment" -> <<CommentTok(node.data)>>
    [] node.type = "tag" ->
         IF node.children = <<>> THEN <<EmptyTok(node.name, node.attribs, "/>")>>
         ELSE <<OpenTok(node.name, node.attribs)>> \o RenderAll(node.children) \o <<CloseTok(node.name)>>
    [] OTHER -> RenderAll(node.children)

RenderAll(nodes) == IF nodes = <<>> THEN <<>> ELSE Cat(RenderNode(Head(nodes)), RenderAll(Tail(nodes)))

\* whether "$" of a regular expression with the m flag matches after token i:
\* at the end of the input or before a line terminator
AtLineEnd(toks, i) == i = Len(toks) \/ (Kind(toks[i + 1]) = "text" /\ Head(toks[i + 1][2]) \in {LF, CR})

\* the rendered text left as it is, each childless tag closed with "/>"
ReplaceNone(toks) == toks

\* text.replace(RE_SELF_CLOSING_TAG, " />") with RE_SELF_CLOSING_TAG = /\/>$/gm
ReplaceSelfClosing(toks) ==
  [i \in 1..Len(toks) |->
     IF Kind(toks[i]) = "empty" /\ toks[i][4] = "/>" /\ AtLineEnd(toks, i)
     THEN [toks[i] EXCEPT ![4] = " />"] ELSE toks[i]]

(***************************************************************************)
(* utils: isWhitespace, getNodes, detectIndent, trimBefore, trimAfter,    *)
(* trimEnd.                                                                *)
(***************************************************************************)
isWhitespace(node) == node.type = "text" /\ Trim(node.data) = <<>>

\* the children of the node only, nothing below them
innerShallow(node, depth) == [i \in 1..Len(node.children) |-> [node |-> node.children[i], depth |-> depth]]

RECURSIVE inner(_, _)
RECURSIVE innerFrom(_, _, _)
\* the nodes under node, each with its depth, in the order getNodes yields them
inner(node, depth) == innerFrom(node.children, 1, depth)

innerFrom(children, i, depth) ==
  IF i > Len(children) THEN <<>>
  ELSE <<[node |-> children[i], depth |-> depth]>> \o inner(children[i], depth + 1)
       \o innerFrom(children, i + 1, depth)

getNodes(doc) == inner(doc, 0)

getTextNodes(doc) == SelectSeq(getNodes(doc), LAMBDA y : y.node.type = "text")

\* detectIndent without the test second === first
detectIndentUnchecked(doc) ==
  LET textNodes == getTextNodes(doc)
      hasFirst == Len(textNodes) >= 1
      hasSecond == Len(textNodes) >= 2
      first == textNodes[1].node.data
      second == textNodes[2].node.data
  IN IF ~hasFirst \/ Trim(first) # <<>>
     THEN [newline |-> <<>>, whitespace |-> <<>>]
     ELSE IF ~hasSecond \/ Trim(second) # <<>>
     THEN [newline |-> first, whitespace |-> <<SP, SP>>]
     ELSE [newline |-> first, whitespace |-> ReplaceFirst(second, first)]

\* detectIndent without the test that the second text node is whitespace
detectIndentAnySecond(doc) ==
  LET textNodes == getTextNodes(doc)
      hasFirst == Len(textNodes) >= 1
      hasSecond == Len(textNodes) >= 2
      first == textNodes[1].node.data
      second == textNodes[2].node.data
  IN IF ~hasFirst \/ Trim(first) # <<>>
     THEN [newline |-> <<>>, whitespace |-> <<>>]
     ELSE IF ~hasSecond \/ second = first
     THEN [newline |-> first, whitespace |-> <<SP, SP>>]
     ELSE [newline |-> first, whitespace |-> ReplaceFirst(second, first)]

detectIndent(doc) ==
  LET textNodes == getTextNodes(doc)
      hasFirst == Len(textNodes) >= 1
      hasSecond == Len(textNodes) >= 2
      first == textNodes[1].node.data
      second == textNodes[2].node.data
  IN IF ~hasFirst \/ Trim(first) # <<>>
     THEN [newline |-> <<>>, whitespace |-> <<>>]
     ELSE IF ~hasSecond \/ second = first \/ Trim(second) # <<>>
     THEN [newline |-> first, whitespace |-> <<SP, SP>>]
     ELSE [newline |-> first, whitespace |-> ReplaceFirst(second, first)]

RemoveIndex(s, i) == SubSeq(s, 1, i - 1) \o SubSeq(s, i + 1, Len(s))
InsertIndex(s, i, e) == SubSeq(s, 1, i - 1) \o <<e>> \o SubSeq(s, i, Len(s))

\* trimBefore on the node at index i of its parent's children
trimBefore(siblings, i) ==
  IF i > 1 /\ isWhitespace(siblings[i - 1]) THEN RemoveIndex(siblings, i - 1) ELSE siblings

\* no trimming after the node
trimAfterNone(siblings, i) == siblings

\* trimAfter on the node at index i of its parent's children
trimAfter(siblings, i) ==
  IF i < Len(siblings) /\ isWhitespace(siblings[i + 1]) THEN RemoveIndex(siblings, i + 1) ELSE siblings

\* the last child only is taken out
trimEndOne(children) ==
  IF children # <<>> /\ isWhitespace(children[Len(children)])
  THEN SubSeq(children, 1, Len(children) - 1) ELSE children

\* no trimming of the trailing children
trimEndNone(children) == children

RECURSIVE trimEnd(_)
\* trimEnd on a node with these children
trimEnd(children) ==
  IF children # <<>> /\ isWhitespace(Last(children)) THEN trimEnd(Front(children)) ELSE children

(***************************************************************************)
(* Addressing nodes: a path is the sequence of child indices leading from *)
(* the document root to a node.                                            *)
(***************************************************************************)
RECURSIVE NodeAt(_, _)
NodeAt(node, path) == IF path = <<>> THEN node ELSE NodeAt(node.children[Head(path)], Tail(path))

RECURSIVE SetChildren(_, _, _)
\* the tree with the children of the node at path replaced
SetChildren(node, path, children) ==
  IF path = <<>> THEN [node EXCEPT !.children = children]
  ELSE [node EXCEPT !.children[Head(path)] = SetChildren(@, Tail(path), children)]

\* the paths of all nodes of the document, in document order
RECURSIVE PathsUnder(_, _)
RECURSIVE PathsFrom(_, _, _)
PathsUnder(node, path) == PathsFrom(node, path, 1)

PathsFrom(node, path, i) ==
  IF i > Len(node.children) THEN <<>>
  ELSE <<Append(path, i)>> \o PathsUnder(node.children[i], Append(path, i))
       \o PathsFrom(node, path, i + 1)

AllPaths(doc) == PathsUnder(doc, <<>>)

isTag(node) == node.type = "tag"

\* the selector "name": the paths of the elements of that name, in document order
SelectName(doc, name) ==
  SelectSeq(AllPaths(doc), LAMBDA p : isTag(NodeAt(doc, p)) /\ NodeAt(doc, p).name = name)

\* :has(name): some descendant element has that name
HasDescendant(node, name) ==
  LET under == getNodes(node)
  IN \E i \in 1..Len(under) : isTag(under[i].node) /\ under[i].node.name = name

\* the node has a child of any type, a Text node included
HasChild(node) == node.children # <<>>

\* :has(*): some descendant is an element
HasElement(node) == \E i \in 1..Len(node.children) : isTag(node.children[i])

\* .append(): node becomes the last child of the node at path
AppendTo(doc, path, node) == SetChildren(doc, path, Append(NodeAt(doc, path).children, node))

RECURSIVE AppendToAll(_, _, _)
\* .appendTo() on a selection of targets: a copy goes to each of them
AppendToAll(doc, paths, node) ==
  IF paths = <<>> THEN doc ELSE AppendToAll(AppendTo(doc, Head(paths), node), Tail(paths), node)

(***************************************************************************)
(* Paths of files.  A Uri is the sequence of the segments of its fsPath.  *)
(***************************************************************************)
BSL == "\\"

RECURSIVE Relative(_, _)
\* path.relative(from, to)
Relative(from, to) ==
  IF from # <<>> /\ to # <<>> /\ Head(from) = Head(to) THEN Relative(Tail(from), Tail(to))
  ELSE [i \in 1..Len(from) |-> ".."] \o to

RECURSIVE Join(_, _)
\* the segments joined by a separator
Join(segs, sep) ==
  IF segs = <<>> THEN <<>>
  ELSE IF Len(segs) = 1 THEN <<Head(segs)>>
  ELSE <<Head(segs)>> \o sep \o Join(Tail(segs), sep)

\* Csproj.asRelativePath: the path relative to the project's directory, with
\* "\" between its segments, or "\\" for use inside a selector
asRelativePath(projectUri, uri, isSelectorQuery) ==
  Join(Relative(Front(projectUri), uri), IF isSelectorQuery THEN <<BSL, BSL>> ELSE <<BSL>>)

RECURSIVE CssUnescape(_)
\* the value of a quoted string of a selector: a backslash escapes the next character
CssUnescape(s) ==
  IF s = <<>> THEN <<>>
  ELSE IF Head(s) = BSL /\ Len(s) >= 2 THEN <<s[2]>> \o CssUnescape(SubSeq(s, 3, Len(s)))
  ELSE <<Head(s)>> \o CssUnescape(Tail(s))

QUOTE == "\""

\* the character at i of a selector follows an odd number of backslashes
Escaped(s, i) ==
  LET run == CHOOSE n \in 0..(i - 1) :
               /\ \A k \in 1..n : s[i - k] = BSL
               /\ (n < i - 1 => s[i - n - 1] # BSL)
  IN run % 2 = 1

\* the selector ItemGroup > *[Include="rel"] is malformed: the quoted value
\* ends at the first quote that is not escaped and "]" must follow it, so a
\* quote in rel ends the value before the selector's own closing quote
selectorThrows(rel) == \E i \in 1..Len(rel) : rel[i] = QUOTE /\ ~Escaped(rel, i)

\* hasItem(uri) and removeItem(uri) raise the selector parser's error
queryThrows(projectUri, uri) == selectorThrows(asRelativePath(projectUri, uri, TRUE))

(***************************************************************************)
(* Csproj: addItem, hasItem, removeItem.                                   *)
(***************************************************************************)
\* the selector ItemGroup > *[Include="rel"] applied to the child at path
IsItem(doc, path, rel) ==
  /\ Len(path) >= 2
  /\ isTag(NodeAt(doc, path))
  /\ isTag(NodeAt(doc, Front(path))) /\ NodeAt(doc, Front(path)).name = "ItemGroup"
  /\ HasAttr(NodeAt(doc, path), "Include")
  /\ Attr(NodeAt(doc, path), "Include") = CssUnescape(rel)

ItemsOf(doc, rel) == SelectSeq(AllPaths(doc), LAMBDA p : IsItem(doc, p, rel))

\* addItem making a new ItemGroup for every item
addItemNewGroup(doc, projectUri, itemType, uri) ==
  LET item == Element(itemType, <<<<"Include", asRelativePath(projectUri, uri, FALSE)>>>>, <<>>)
      projects == SelectName(doc, "Project")
  IN IF projects = <<>> THEN doc
     ELSE AppendTo(AppendToAll(doc, Front(projects), Element("ItemGroup", <<>>, <<>>)),
                   Last(projects), Element("ItemGroup", <<>>, <<item>>))

\* the tree after Csproj.addItem(itemType, uri)
addItem(doc, projectUri, itemType, uri) ==
  LET groups == SelectSeq(SelectName(doc, "ItemGroup"),
                          LAMBDA p : HasDescendant(NodeAt(doc, p), itemType))
      item == Element(itemType, <<<<"Include", asRelativePath(projectUri, uri, FALSE)>>>>, <<>>)
      projects == SelectName(doc, "Project")
  IN IF Len(groups) > 0 THEN AppendTo(doc, Last(groups), item)
     ELSE IF projects = <<>> THEN doc
     ELSE AppendTo(AppendToAll(doc, Front(projects), Element("ItemGroup", <<>>, <<>>)),
                   Last(projects), Element("ItemGroup", <<>>, <<item>>))

\* hasItem with the path as asRelativePath(uri) gives it, "\" not doubled
hasItemPlain(doc, projectUri, uri) == Len(ItemsOf(doc, asRelativePath(projectUri, uri, FALSE))) > 0

\* the result of Csproj.hasItem(uri)
hasItem(doc, projectUri, uri) == Len(ItemsOf(doc, asRelativePath(projectUri, uri, TRUE))) > 0

\* only the first element the selector matched is taken out of its parent
RemoveFirstItem(node, rel) ==
  IF ItemsOf(node, rel) = <<>> THEN node
  ELSE LET p == ItemsOf(node, rel)[1]
       IN SetChildren(node, Front(p), RemoveIndex(NodeAt(node, Front(p)).children, Last(p)))

RECURSIVE RemoveAllItems(_, _)
\* every element child of an ItemGroup is taken out of it, whatever its Include
RemoveAllItems(node, rel) ==
  LET keep == SelectSeq(node.children, LAMBDA c : ~(isTag(node) /\ node.name = "ItemGroup" /\ isTag(c)))
  IN [node EXCEPT !.children = [i \in 1..Len(keep) |-> RemoveAllItems(keep[i], rel)]]

RECURSIVE RemoveItems(_, _)
\* items.remove(): every element the selector matched is taken out of its parent
RemoveItems(node, rel) ==
  LET keep == SelectSeq(node.children,
                 LAMBDA c : ~(isTag(node) /\ node.name = "ItemGroup" /\ isTag(c)
                              /\ HasAttr(c, "Include") /\ Attr(c, "Include") = CssUnescape(rel)))
  IN [node EXCEPT !.children = [i \in 1..Len(keep) |-> RemoveItems(keep[i], rel)]]

\* no ItemGroup is removed
KeepEmptyGroups(node) == node

RECURSIVE RemoveEmptyGroups(_)
\* this.xml("ItemGroup:not(:has(*))").remove()
RemoveEmptyGroups(node) ==
  LET keep == SelectSeq(node.children,
                 LAMBDA c : ~(isTag(c) /\ c.name = "ItemGroup" /\ ~HasElement(c)))
  IN [node EXCEPT !.children = [i \in 1..Len(keep) |-> RemoveEmptyGroups(keep[i])]]

\* the tree after Csproj.removeItem(uri)
removeItem(doc, projectUri, uri) ==
  RemoveEmptyGroups(RemoveItems(doc, asRelativePath(projectUri, uri, TRUE)))

\* the value Csproj.removeItem(uri) returns
removeItemResult(doc, projectUri, uri) == Len(ItemsOf(doc, asRelativePath(projectUri, uri, TRUE))) > 0

(***************************************************************************)
(* Csproj on linkedom (src/csproj.ts): removeItem(uri, isDirectory).  The *)
(* document is the tree the XML parser builds, text nodes between the     *)
(* elements included.  An Include value is the sequence of its segments   *)
(* and separators; no segment of the paths used is part of another, so an *)
(* occurrence of characters is an occurrence of segments.                  *)
(***************************************************************************)
\* [Include*="value"]: value is not empty and occurs in s
Contains(s, value) == value # <<>> /\ \E i \in 1..Len(s) : OccursAt(s, value, i)

\* the selectors ItemGroup > *[Include*="rel"] (isDirectory) and
\* ItemGroup > *[Include="rel"] applied to the node at path
IsItemDom(doc, path, rel, isDirectory) ==
  /\ Len(path) >= 2
  /\ isTag(NodeAt(doc, path))
  /\ isTag(NodeAt(doc, Front(path))) /\ NodeAt(doc, Front(path)).name = "ItemGroup"
  /\ HasAttr(NodeAt(doc, path), "Include")
  /\ IF isDirectory THEN Contains(Attr(NodeAt(doc, path), "Include"), CssUnescape(rel))
     ELSE Attr(NodeAt(doc, path), "Include") = CssUnescape(rel)

\* querySelectorAll: the matching elements in document order
ItemsDom(doc, rel, isDirectory) == SelectSeq(AllPaths(doc), LAMBDA p : IsItemDom(doc, p, rel, isDirectory))

\* the path of a node once the node at gone was taken out of the tree
Shifted(path, gone) ==
  IF /\ Len(path) >= Len(gone)
     /\ SubSeq(path, 1, Len(gone) - 1) = Front(gone)
     /\ path[Len(gone)] > Last(gone)
  THEN [path EXCEPT ![Len(gone)] = @ - 1] ELSE path

RECURSIVE removeEach(_, _)
\* the loop over items: the group is removed when the item is its only child
\* node, the item otherwise
removeEach(doc, items) ==
  IF items = <<>> THEN doc
  ELSE LET item == Head(items)
           group == Front(item)
           gone == IF Len(NodeAt(doc, group).children) = 1 THEN group ELSE item
           left == SetChildren(doc, Front(gone), RemoveIndex(NodeAt(doc, Front(gone)).children, Last(gone)))
       IN removeEach(left, [i \in 1..(Len(items) - 1) |-> Shifted(items[i + 1], gone)])

\* the tree after removeItem(uri, isDirectory) of the Csproj on linkedom
removeItemDom(doc, projectUri, uri, isDirectory) ==
  removeEach(doc, ItemsDom(doc, asRelativePath(projectUri, uri, FALSE), isDirectory))

\* the value it returns
removeItemDomResult(doc, projectUri, uri, isDirectory) ==
  Len(ItemsDom(doc, asRelativePath(projectUri, uri, FALSE), isDirectory)) > 0

(***************************************************************************)
(* Csproj.prettify.  getNodes is a generator over doc(node).contents(),   *)
(* which is a copy of the node's children taken when the generator        *)
(* reaches the node: snapshot.  The loop body changes the tree only at    *)
(* and before the node it was handed: out is the current list of the      *)
(* parent's children up to that node.                                      *)
(***************************************************************************)
RECURSIVE prettifyNodesOpen(_, _, _, _, _)
\* the loop without the closing indent
prettifyNodesOpen(snapshot, k, out, depth, indent) ==
  IF k > Len(snapshot) THEN out
  ELSE LET node == snapshot[k] IN
    IF ~isTag(node) THEN prettifyNodesOpen(snapshot, k + 1, Append(out, node), depth, indent)
    ELSE
      LET before == Front(trimBefore(Append(out, node), Len(out) + 1))
          trimmed == trimEnd(node.children)
          indentation == indent.newline \o Repeat(indent.whitespace, depth)
          before2 == IF indent.whitespace # <<>> THEN Append(before, Text(indentation)) ELSE before
          below == prettifyNodesOpen(trimmed, 1, <<>>, depth + 1, indent)
      IN prettifyNodesOpen(snapshot, k + 1, Append(before2, [node EXCEPT !.children = below]),
                           depth, indent)

RECURSIVE prettifyNodes(_, _, _, _, _)
prettifyNodes(snapshot, k, out, depth, indent) ==
  IF k > Len(snapshot) THEN out
  ELSE LET node == snapshot[k] IN
    IF ~isTag(node) THEN prettifyNodes(snapshot, k + 1, Append(out, node), depth, indent)
    ELSE
      LET \* trimBefore(this.xml, node)
          before == Front(trimBefore(Append(out, node), Len(out) + 1))
          \* trimEnd(this.xml, node)
          trimmed == trimEnd(node.children)
          indentation == indent.newline \o Repeat(indent.whitespace, depth)
          indented == indent.whitespace # <<>>
          before2 == IF indented THEN Append(before, Text(indentation)) ELSE before
          closed == IF indented /\ (\E i \in 1..Len(trimmed) : isTag(trimmed[i]))
                    THEN Append(trimmed, Text(indentation)) ELSE trimmed
          \* yield* inner(child, depth + 1)
          below == prettifyNodes(closed, 1, <<>>, depth + 1, indent)
      IN prettifyNodes(snapshot, k + 1, Append(before2, [node EXCEPT !.children = below]),
                       depth, indent)

RECURSIVE prettifyYieldsLive(_, _, _, _)
\* the elements the loop would be handed were the children of a node walked
\* by index while the loop changes them
prettifyYieldsLive(snapshot, k, depth, indent) ==
  IF k > Len(snapshot) THEN <<>>
  ELSE LET node == snapshot[k] IN
    IF ~isTag(node) THEN prettifyYieldsLive(snapshot, k + 1, depth, indent)
    ELSE
      LET before == trimBefore(snapshot, k)
          at == IF Len(before) < Len(snapshot) THEN k - 1 ELSE k
          trimmed == trimEnd(node.children)
          indentation == indent.newline \o Repeat(indent.whitespace, depth)
          indented == indent.whitespace # <<>>
          before2 == IF indented THEN InsertIndex(before, at, Text(indentation)) ELSE before
          closed == IF indented /\ (\E i \in 1..Len(trimmed) : isTag(trimmed[i]))
                    THEN Append(trimmed, Text(indentation)) ELSE trimmed
      IN <<[node |-> node, depth |-> depth]>>
           \o prettifyYieldsLive(closed, 1, depth + 1, indent)
           \o prettifyYieldsLive(before2, k + 1, depth, indent)

RECURSIVE prettifyYields(_, _, _, _)
\* the elements getNodes hands to the loop of prettify, each as it is when it
\* is yielded and with the depth it is yielded with: inner walks snapshot, the
\* copy of the children of a node that contents() made when inner was entered
\* for the node, which is after the loop trimmed and closed it
prettifyYields(snapshot, k, depth, indent) ==
  IF k > Len(snapshot) THEN <<>>
  ELSE LET node == snapshot[k] IN
    IF ~isTag(node) THEN prettifyYields(snapshot, k + 1, depth, indent)
    ELSE
      LET trimmed == trimEnd(node.children)
          indentation == indent.newline \o Repeat(indent.whitespace, depth)
          indented == indent.whitespace # <<>>
          closed == IF indented /\ (\E i \in 1..Len(trimmed) : isTag(trimmed[i]))
                    THEN Append(trimmed, Text(indentation)) ELSE trimmed
      IN <<[node |-> node, depth |-> depth]>>
           \o prettifyYields(closed, 1, depth + 1, indent)
           \o prettifyYields(snapshot, k + 1, depth, indent)

\* the for loop of prettify
prettifyLoop(doc, indent) == [doc EXCEPT !.children = prettifyNodes(doc.children, 1, <<>>, 0, indent)]

RECURSIVE EmptyAll(_, _)
\* project.empty()
EmptyAll(doc, paths) ==
  IF paths = <<>> THEN doc ELSE EmptyAll(SetChildren(doc, Head(paths), <<>>), Tail(paths))

RECURSIVE InsertAfterAll(_, _, _)
\* .insertAfter(project): the node is put after each target, last target first
InsertAfterAll(doc, paths, node) ==
  IF paths = <<>> THEN doc
  ELSE LET p == Last(paths)
           siblings == NodeAt(doc, Front(p)).children
       IN InsertAfterAll(SetChildren(doc, Front(p), InsertIndex(siblings, Last(p) + 1, node)),
                         Front(paths), node)

\* project[0] is undefined when no element is named Project, and trimAfter
\* then reads a property of undefined: a TypeError
prettifyThrows(doc) == SelectName(doc, "Project") = <<>>

\* the tree after Csproj.prettify()
prettify(doc, indent) ==
  LET looped == prettifyLoop(doc, indent)
      project == SelectName(looped, "Project")
      \* project.children().length === 0
      emptied == IF \A i \in 1..Len(project) : ~HasElement(NodeAt(looped, project[i]))
                 THEN EmptyAll(looped, project) ELSE looped
  IN IF project = <<>> THEN emptied
     ELSE LET first == project[1]
              trimmed == SetChildren(emptied, Front(first),
                            trimAfter(NodeAt(emptied, Front(first)).children, Last(first)))
          IN InsertAfterAll(trimmed, SelectName(trimmed, "Project"), Text(indent.newline))

ErrorTok == <<"error", "TypeError">>

\* the text Csproj.serialize() returns, given the prettified tree
serializeText(pretty) == ReplaceSelfClosing(RenderAll(pretty.children))

(***************************************************************************)
(* Manifests.  A shape is a document without its layout; Canonical lays   *)
(* a shape out in canonical pretty form: the declaration, then every      *)
(* element on a line of its own, indented by one unit per depth, an       *)
(* element without children self-closing with a space, and one newline    *)
(* after the root.                                                         *)
(***************************************************************************)
XmlDecl == "?xml version=1.0 encoding=utf-8?"
ProjectUri == <<"tmp", "Test.csproj">>
Test1 == <<"tmp", "src", "Test1.cs">>
Test2 == <<"tmp", "src", "Test2.ts">>
Test3 == <<"tmp", "src", "Test3.html">>
Index == <<"tmp", "index.html">>

Include(uri) == <<<<"Include", Join(Relative(Front(ProjectUri), uri), <<BSL>>)>>>>
Item(itemType, uri) == Element(itemType, Include(uri), <<>>)
ItemGroupOf(items) == Element("ItemGroup", <<>>, items)
ProjectOf(groups) == Element("Project", <<>>, groups)

RECURSIVE CanonicalNodes(_, _, _, _)
CanonicalNodes(nodes, depth, nl, unit) ==
  IF nodes = <<>> THEN <<>>
  ELSE LET node == Head(nodes)
           lead == Chars(nl \o Repeat(unit, depth))
           one == CASE node.type = "text" -> Chars(node.data)
                    [] node.type = "comment" -> lead \o <<CommentTok(node.data)>>
                    [] node.children = <<>> -> lead \o <<EmptyTok(node.name, node.attribs, " />")>>
                    [] \E i \in 1..Len(node.children) : isTag(node.children[i]) ->
                         Cat(lead \o <<OpenTok(node.name, node.attribs)>>,
                             Cat(CanonicalNodes(node.children, depth + 1, nl, unit),
                                 lead \o <<CloseTok(node.name)>>))
                    [] OTHER -> Cat(lead \o <<OpenTok(node.name, node.attribs)>>,
                                    CanonicalNodes(node.children, depth + 1, nl, unit))
                                \o <<CloseTok(node.name)>>
       IN Cat(one, CanonicalNodes(Tail(nodes), depth, nl, unit))

Canonical(root, nl, unit) == Cat(<<DeclTok(XmlDecl)>> \o CanonicalNodes(<<root>>, 0, nl, unit), Chars(nl))

\* <?xml version="1.0" encoding="utf-8"?><Project />
CompactEmpty == <<DeclTok(XmlDecl), EmptyTok("Project", <<>>, " />")>>
\* CSP_EMPTY of the tests
CspEmpty == Canonical(ProjectOf(<<>>), <<LF>>, <<SP, SP>>)
\* CSP_ITEMGROUP_BEFORE of the tests
CspItemGroupBefore ==
  Canonical(ProjectOf(<<ItemGroupOf(<<Item("Compile", Test1)>>), ItemGroupOf(<<Item("Content", Index)>>)>>),
            <<LF>>, <<SP, SP>>)
\* a project written with "\r\n" and tabs: an item with a metadata element, a
\* group holding items of two types, and two groups holding Compile items
Metadata(name, data) == Element(name, <<>>, <<Text(data)>>)
MixedProject ==
  ProjectOf(<<ItemGroupOf(<<Element("Compile", Include(Test1), <<Metadata("Link", <<NonWs>>)>>),
                            Item("Content", Index)>>),
              ItemGroupOf(<<Item("Compile", Index)>>)>>)
CspMetadata == Canonical(MixedProject, <<CR, LF>>, <<TAB>>)
\* a project without items: a property group and an ItemGroup left empty
CspNoItems ==
  Canonical(ProjectOf(<<Element("PropertyGroup", <<>>, <<Metadata("Nullable", <<NonWs>>)>>),
                        ItemGroupOf(<<>>)>>),
            <<LF>>, <<SP, SP, SP, SP>>)

\* a project with a property group and no ItemGroup
CspProperties ==
  Canonical(Element("Project", <<<<"Sdk", <<"Microsoft.NET.Sdk">>>>>>,
                    <<Element("PropertyGroup", <<>>, <<Metadata("Nullable", <<NonWs>>)>>)>>),
            <<LF>>, <<SP, SP>>)

Manifests == {CompactEmpty, CspEmpty, CspItemGroupBefore, CspMetadata, CspNoItems, CspProperties}
\* Link is also the name of the metadata element of an item of CspMetadata
ItemTypes == {"Compile", "Content", "Link"}
Uris == {Test1, Index}

\* the number of addItem and removeItem calls of one run
MaxOps == 2

\* where save(to) writes when it is given a destination
Identical == <<"tmp", "TestIdentical.csproj">>
Locations == {ProjectUri, Identical}

(***************************************************************************)
(* Settings and the files of the workspace.                                *)
(***************************************************************************)
\* AutoSetting
ON == "on"
PROMPT == "prompt"
OFF == "off"
\* Decision
Yes == "Yes"
No == "No"
Never == "Never"

\* the files of the workspace (MOCK_FILES of the tests) and a directory of it
WorkspaceFiles == {Test1, Test2, Index}
SrcDir == <<"tmp", "src">>

\* path.extname
ExtName(uri) ==
  CASE Last(uri) = "Test1.cs" -> ".cs"
    [] Last(uri) = "Test2.ts" -> ".ts"
    [] Last(uri) = "Test3.html" -> ".html"
    [] Last(uri) = "index.html" -> ".html"
    [] OTHER -> ""

\* getItemTypeForFile with the default itemType setting
getItemTypeForFile(uri) ==
  CASE ExtName(uri) = ".cs" -> "Compile"
    [] ExtName(uri) = ".ts" -> "TypeScriptCompile"
    [] OTHER -> "Content"

\* a regular expression setting is written as the extension of the paths it
\* matches; the empty string is a setting left unset
Unset == ""
RegexTest(pattern, uri) == ExtName(uri) = pattern

\* the defaults of getAutoAdd, getAutoRemove, getIncludeRegex, getExcludeRegex
DefaultConfig == [autoAdd |-> PROMPT, autoRemove |-> PROMPT, includeRegex |-> Unset, excludeRegex |-> Unset]

\* UriFilter.isValid
isValid(config, ignoredPaths, uri) ==
  /\ uri \notin ignoredPaths
  /\ ~(config.includeRegex # Unset /\ ~RegexTest(config.includeRegex, uri))
  /\ ~(config.excludeRegex # Unset /\ RegexTest(config.excludeRegex, uri))

\* workspace.findFiles(new RelativePattern(uri, "**/*")): the files below uri
FilesBelow(uri) ==
  {f \in WorkspaceFiles : Len(f) > Len(uri) /\ SubSeq(f, 1, Len(uri)) = uri}

\* the orders in which a set of files can be listed
Orders(files) ==
  {order \in [1..Cardinality(files) -> files] : \A i, j \in 1..Cardinality(files) : order[i] = order[j] => i = j}

(***************************************************************************)
(* The state: the files, one Csproj instance (xml, indent), the text it   *)
(* was opened from, the text its last serialize() returned, and the calls *)
(* made on it so far; then the state of the commands: the settings, the   *)
(* ignored paths, the files pending removal, the debounce timer, the      *)
(* prompts shown and not answered, the commands run so far, the status of *)
(* the status bar and the document of the active text editor; then the    *)
(* state of the Cache: the Csproj instances made by Csproj.open, the map  *)
(* of the cached projects, the calls that are awaiting, and what the      *)
(* cache did so far.                                                       *)
(***************************************************************************)
VARIABLES disk, file, xml, indent, out, hist, config, ignored, pending, timer, prompts, trace,
          status, active, instances, projects, tasks, log

cacheVars == <<instances, projects, tasks, log>>
cmdVars == <<config, ignored, pending, timer, prompts, trace, status, active, instances, projects, tasks, log>>
vars == <<disk, file, xml, indent, out, hist, config, ignored, pending, timer, prompts, trace,
          status, active, instances, projects, tasks, log>>

\* Status
InProject == "InProject"
NotInProject == "NotInProject"
ProjectNotFound == "ProjectNotFound"
Ignored == "Ignored"
Unavailable == "Unavailable"

\* window.activeTextEditor is undefined
NoEditor == <<>>

\* an entry of the log of the cache, and a call that is awaiting
Logged(op, key, id, at) == [op |-> op, key |-> key, id |-> id, at |-> at]

Call(op, itemType, uri, ret) == [op |-> op, itemType |-> itemType, uri |-> uri, ret |-> ret]

\* a call that raised an error: it returned nothing
Raised == "Error"
Throw(op, uri) == [op |-> op, itemType |-> Raised, uri |-> uri, ret |-> FALSE]
Threw(c) == c.itemType = Raised

IsMutation(c) == c.op \in {"addItem", "removeItem"}
Mutations == SelectSeq(hist, IsMutation)
NMut == Len(Mutations)

\* the calls, a call that repeats the one before it recorded once
Record(c) == IF hist # <<>> /\ Last(hist) = c THEN hist ELSE Append(hist, c)

\* the extension activated with these settings: nothing is pending
Activate(settings) ==
  /\ config = settings
  /\ ignored = {}
  /\ pending = <<>>
  /\ timer = FALSE
  /\ prompts = <<>>
  /\ trace = <<>>
  /\ status = Unavailable
  /\ active = NoEditor
  /\ instances = <<>>
  /\ projects = <<>>
  /\ tasks = {}
  /\ log = <<>>

\* Csproj.open and the constructor, on a file holding text
Load(text) ==
  /\ disk = [l \in Locations |-> IF l = ProjectUri THEN text ELSE <<>>]
  /\ file = text
  /\ xml = Parse(text)
  /\ indent = detectIndent(Parse(text))
  /\ out = <<>>
  /\ hist = <<>>

Open(text) == Load(text) /\ Activate(DefaultConfig)

AddItem(itemType, uri) ==
  /\ xml' = addItem(xml, ProjectUri, itemType, uri)
  /\ hist' = Append(hist, Call("addItem", itemType, uri, FALSE))
  /\ UNCHANGED <<disk, file, indent, out>>
  /\ UNCHANGED cmdVars

RemoveItem(uri) ==
  /\ xml' = IF queryThrows(ProjectUri, uri) THEN xml ELSE removeItem(xml, ProjectUri, uri)
  /\ hist' = Append(hist, IF queryThrows(ProjectUri, uri) THEN Throw("removeItem", uri)
                          ELSE Call("removeItem", "", uri, removeItemResult(xml, ProjectUri, uri)))
  /\ UNCHANGED <<disk, file, indent, out>>
  /\ UNCHANGED cmdVars

\* removeItem(uri, isDirectory) of the Csproj on linkedom
RemoveItemDom(uri, isDirectory) ==
  /\ xml' = removeItemDom(xml, ProjectUri, uri, isDirectory)
  /\ hist' = Append(hist, Call("removeItem", IF isDirectory THEN "isDirectory" ELSE "", uri,
                               removeItemDomResult(xml, ProjectUri, uri, isDirectory)))
  /\ UNCHANGED <<disk, file, indent, out>>
  /\ UNCHANGED cmdVars

\* serialize() detecting the indentation anew
SerializeRedetect ==
  /\ indent' = detectIndent(xml)
  /\ xml' = prettify(xml, indent')
  /\ out' = IF prettifyThrows(xml) THEN <<ErrorTok>> ELSE serializeText(xml')
  /\ hist' = Record(Call("serialize", "", <<>>, FALSE))
  /\ UNCHANGED <<disk, file>>
  /\ UNCHANGED cmdVars

Serialize ==
  /\ xml' = prettify(xml, indent)
  /\ out' = IF prettifyThrows(xml) THEN <<ErrorTok>> ELSE serializeText(xml')
  /\ hist' = Record(Call("serialize", "", <<>>, FALSE))
  /\ UNCHANGED <<disk, file, indent>>
  /\ UNCHANGED cmdVars

\* Csproj.save(to): the serialized text replaces what the file held
Save(to) ==
  /\ xml' = prettify(xml, indent)
  /\ disk' = IF prettifyThrows(xml) THEN disk ELSE [disk EXCEPT ![to] = serializeText(xml')]
  /\ hist' = Record(Call("save", "", to, FALSE))
  /\ UNCHANGED <<file, indent, out>>
  /\ UNCHANGED cmdVars

(***************************************************************************)
(* The commands "Include in project" and "Remove from project".  They are *)
(* run from the command palette or a context menu (isEvent false) or on a *)
(* file event (isEvent true).  One project holds every file of the        *)
(* workspace, and Cache.findProject returns its one Csproj instance.  A    *)
(* command runs to its first prompt in one step; the debounced             *)
(* removePending runs in a step of its own, and so do what follows the     *)
(* answer to a prompt and what follows the save removePending awaits.      *)
(***************************************************************************)
Ran(cmd, uri, isEvent) == [cmd |-> cmd, uri |-> uri, isEvent |-> isEvent]
IsCommand(e) == e.cmd \in {"add", "remove"}
\* the commands run so far
NCmd == Len(SelectSeq(trace, IsCommand))
\* the number of commands of one run
MaxCommands == 2

RECURSIVE addFiles(_, _)
\* addDirInternal: addFileInternal with isEvent false on each file in turn
addFiles(acc, files) ==
  IF files = <<>> THEN acc
  ELSE LET f == Head(files)
           t == getItemTypeForFile(f)
       IN addFiles(IF hasItem(acc.doc, ProjectUri, f) THEN acc
                   ELSE [doc |-> addItem(acc.doc, ProjectUri, t, f),
                         calls |-> Append(acc.calls, Call("addItem", t, f, FALSE)),
                         changed |-> TRUE],
                   Tail(files))

RECURSIVE removeFiles(_, _)
\* removePending: removeFileInternal on each pending file in turn
removeFiles(acc, files) ==
  IF files = <<>> THEN acc
  ELSE LET f == Head(files)
           didRemove == removeItemResult(acc.doc, ProjectUri, f)
       IN removeFiles([doc |-> removeItem(acc.doc, ProjectUri, f),
                       calls |-> Append(acc.calls, Call("removeItem", "", f, didRemove)),
                       changed |-> acc.changed \/ didRemove],
                      Tail(files))

\* the calls a command made on the project, followed by csproj.save() when
\* the command changed it
Commit(result) ==
  /\ xml' = IF result.changed THEN prettify(result.doc, indent) ELSE result.doc
  /\ disk' = IF result.changed /\ ~prettifyThrows(result.doc)
             THEN [disk EXCEPT ![ProjectUri] = serializeText(prettify(result.doc, indent))]
             ELSE disk
  /\ hist' = hist \o result.calls
               \o (IF result.changed THEN <<Call("save", "", ProjectUri, FALSE)>> ELSE <<>>)
  /\ UNCHANGED <<file, indent, out>>

Untouched == [doc |-> xml, calls |-> <<>>, changed |-> FALSE]

\* askToAdd, up to the prompt
askToAdd == CASE config.autoAdd = ON -> Yes
              [] config.autoAdd = OFF -> No
              [] OTHER -> PROMPT

\* addFileInternal on Decision.Yes
AddedFile(uri) ==
  LET t == getItemTypeForFile(uri)
  IN [doc |-> addItem(xml, ProjectUri, t, uri), calls |-> <<Call("addItem", t, uri, FALSE)>>, changed |-> TRUE]

\* addCommand with verbose true, entered with the status bar showing st and
\* the trace ending in ran
addCommand(uri, isEvent, st, ran) ==
  LET decision == IF isEvent THEN askToAdd ELSE Yes
      entry == Append(ran, Ran("add", uri, isEvent))
  IN \/ /\ uri \in WorkspaceFiles
        /\ hasItem(xml, ProjectUri, uri)
        /\ status' = InProject
        /\ trace' = entry
        /\ UNCHANGED <<disk, file, xml, indent, out, hist, config, ignored, pending, timer, prompts>>
     \/ /\ uri \in WorkspaceFiles
        /\ ~hasItem(xml, ProjectUri, uri) /\ decision = No
        /\ status' = NotInProject
        /\ trace' = entry
        /\ UNCHANGED <<disk, file, xml, indent, out, hist, config, ignored, pending, timer, prompts>>
     \/ /\ uri \in WorkspaceFiles
        /\ ~hasItem(xml, ProjectUri, uri) /\ decision = Yes
        /\ Commit(AddedFile(uri))
        /\ status' = InProject
        /\ trace' = entry
        /\ UNCHANGED <<config, ignored, pending, timer, prompts>>
     \/ /\ uri \in WorkspaceFiles
        /\ ~hasItem(xml, ProjectUri, uri) /\ decision = PROMPT
        /\ prompts' = Append(prompts, Ran("askToAdd", uri, isEvent))
        /\ status' = st
        /\ trace' = Append(entry, Ran("askToAdd", uri, isEvent))
        /\ UNCHANGED <<disk, file, xml, indent, out, hist, config, ignored, pending, timer>>
     \/ /\ uri \notin WorkspaceFiles
        /\ \E files \in Orders({f \in FilesBelow(uri) : isValid(config, ignored, f)}) :
             Commit(addFiles(Untouched, files))
        /\ status' = st
        /\ trace' = entry
        /\ UNCHANGED <<config, ignored, pending, timer, prompts>>

\* the command "Include in project", run by hand or on a file event
AddCommand(uri, isEvent) ==
  /\ UNCHANGED cacheVars
  /\ NCmd < MaxCommands
  /\ addCommand(uri, isEvent, status, trace)
  /\ UNCHANGED active

\* what follows the answer to the prompt of askToAdd
AnswerAdd(i, decision) ==
  /\ UNCHANGED cacheVars
  /\ i \in 1..Len(prompts) /\ prompts[i].cmd = "askToAdd"
  /\ prompts' = RemoveIndex(prompts, i)
  /\ trace' = Append(trace, Ran(decision, prompts[i].uri, prompts[i].isEvent))
  /\ IF decision = Yes THEN Commit(AddedFile(prompts[i].uri))
     ELSE UNCHANGED <<disk, file, xml, indent, out, hist>>
  /\ ignored' = IF decision = Never THEN ignored \cup {prompts[i].uri} ELSE ignored
  /\ status' = CASE decision = Yes -> InProject
                 [] decision = No -> NotInProject
                 [] OTHER -> Ignored
  /\ UNCHANGED <<config, pending, timer, active>>

\* removeCommand
RemoveCommand(uri, isEvent) ==
  /\ UNCHANGED cacheVars
  /\ NCmd < MaxCommands
  /\ trace' = Append(trace, Ran("remove", uri, isEvent))
  /\ LET isFile == ExtName(uri) # ""
         didRemove == removeItemResult(xml, ProjectUri, uri)
         removed == [doc |-> removeItem(xml, ProjectUri, uri),
                     calls |-> <<Call("removeItem", "", uri, didRemove)>>,
                     changed |-> didRemove]
     IN \/ /\ isFile /\ isEvent
           /\ pending' = Append(pending, uri)
           /\ timer' = TRUE
           /\ UNCHANGED <<disk, file, xml, indent, out, hist, config, ignored, prompts, status, active>>
        \/ /\ isFile /\ ~isEvent
           /\ Commit(removed)
           /\ timer' = (IF didRemove THEN timer ELSE TRUE)
           /\ status' = NotInProject
           /\ UNCHANGED <<config, ignored, pending, prompts, active>>
        \/ /\ ~isFile
           /\ \E files \in Orders({f \in FilesBelow(uri) : isValid(config, ignored, f)}) :
                pending' = pending \o files
           /\ timer' = TRUE
           /\ UNCHANGED <<disk, file, xml, indent, out, hist, config, ignored, prompts, status, active>>

\* removePending after the decision Yes: removeFileInternal on each pending
\* file, then csproj.save() when an item was removed; the call awaits the
\* save with the list as it is, and clears the list at once when it saves
\* nothing
removeAll ==
  LET result == removeFiles(Untouched, pending)
  IN /\ Commit(result)
     /\ pending' = IF result.changed THEN pending ELSE <<>>
     /\ tasks' = IF result.changed
                 THEN tasks \cup {Logged("removePending", ProjectUri, Len(pending), Len(hist) + 1)}
                 ELSE tasks

\* removePending, run by the debounce timer, up to the prompt of askToRemove
\* or to the await of csproj.save()
RemovePending ==
  /\ UNCHANGED <<instances, projects, log>>
  /\ timer
  /\ timer' = FALSE
  /\ \/ /\ config.autoRemove = ON
        /\ removeAll
        /\ trace' = Append(trace, Ran("removePending", <<>>, TRUE))
        /\ UNCHANGED <<config, ignored, prompts, status, active>>
     \/ /\ config.autoRemove = OFF
        /\ pending' = <<>>
        /\ trace' = Append(trace, Ran("removePending", <<>>, TRUE))
        /\ UNCHANGED <<disk, file, xml, indent, out, hist, config, ignored, prompts, status, active, tasks>>
     \/ /\ config.autoRemove = PROMPT /\ pending # <<>>
        /\ prompts' = Append(prompts, Ran("askToRemove", <<>>, TRUE))
        /\ trace' = Append(trace, Ran("askToRemove", <<>>, TRUE))
        /\ UNCHANGED <<disk, file, xml, indent, out, hist, config, ignored, pending, status, active, tasks>>
     \/ \* pending[0] is undefined: reading its uri is a TypeError
        /\ config.autoRemove = PROMPT /\ pending = <<>>
        /\ trace' = Append(trace, Ran("TypeError", <<>>, TRUE))
        /\ UNCHANGED <<disk, file, xml, indent, out, hist, config, ignored, pending, prompts, status, active, tasks>>

\* what follows the answer to the prompt of askToRemove
AnswerRemove(i, decision) ==
  /\ UNCHANGED <<instances, projects, log>>
  /\ i \in 1..Len(prompts) /\ prompts[i].cmd = "askToRemove"
  /\ prompts' = RemoveIndex(prompts, i)
  /\ trace' = Append(trace, Ran(decision, <<>>, TRUE))
  /\ IF decision = Yes THEN removeAll
     ELSE /\ pending' = <<>>
          /\ UNCHANGED <<disk, file, xml, indent, out, hist, tasks>>
  /\ UNCHANGED <<config, ignored, timer, status, active>>

\* removePending after the await of csproj.save(): pending.length = 0
RemovePendingResume(t) ==
  /\ t \in tasks /\ t.op = "removePending"
  /\ tasks' = tasks \ {t}
  /\ pending' = <<>>
  /\ UNCHANGED <<disk, file, xml, indent, out, hist, config, ignored, timer, prompts, trace, status, active,
                 instances, projects, log>>

(***************************************************************************)
(* The file events of the extension and the commands on the ignored paths.*)
(* An event handler runs to its first prompt in one step.  No document is *)
(* closed: a document that was shown in the active editor stays open.      *)
(***************************************************************************)
IsEvent(e) == e.cmd \in {"open", "save", "addIgnoredPath", "clearIgnoredPaths"}
\* the events and ignore commands so far
NEvents == Len(SelectSeq(trace, IsEvent))
\* the number of events and ignore commands of one run
MaxEvents == 3

\* the documents that are open: each was shown in the active editor
Documents == {trace[i].uri : i \in {j \in 1..Len(trace) : trace[j].cmd = "open"}}

\* onOpen without the filter
onOpenAll(uri, ran) == addCommand(uri, TRUE, Unavailable, ran)

\* onOpen, after this.statusBar.unavailable()
onOpen(uri, ran) ==
  IF isValid(config, ignored, uri) THEN addCommand(uri, TRUE, Unavailable, ran)
  ELSE /\ status' = Ignored
       /\ trace' = ran
       /\ UNCHANGED <<disk, file, xml, indent, out, hist, config, ignored, pending, timer, prompts>>

\* window.onDidChangeActiveTextEditor, for a text editor showing uri
ChangeActiveTextEditor(uri) ==
  /\ UNCHANGED cacheVars
  /\ NEvents < MaxEvents
  /\ uri # active
  /\ active' = uri
  /\ onOpen(uri, Append(trace, Ran("open", uri, TRUE)))

\* workspace.onDidSaveTextDocument, for the open document uri
SaveTextDocument(uri) ==
  /\ UNCHANGED cacheVars
  /\ NEvents < MaxEvents
  /\ uri \in Documents
  /\ UNCHANGED active
  /\ IF status = Unavailable THEN onOpen(uri, Append(trace, Ran("save", uri, TRUE)))
     ELSE /\ trace' = Append(trace, Ran("save", uri, TRUE))
          /\ UNCHANGED <<disk, file, xml, indent, out, hist, config, ignored, pending, timer, prompts, status>>

\* the status refreshCommand leaves, run on the document of the active editor
\* with these ignored paths, the status bar showing st before
refreshCommand(ignoredPaths, st) ==
  IF active = NoEditor THEN st
  ELSE IF ~isValid(config, ignoredPaths, active) THEN Ignored
  ELSE IF hasItem(xml, ProjectUri, active) THEN InProject
  ELSE NotInProject

\* addIgnoredPathCommand run by hand, on uri or on the active editor's document
AddIgnoredPathCommand(uri, isActiveFile) ==
  /\ UNCHANGED cacheVars
  /\ NEvents < MaxEvents
  /\ isActiveFile => uri = active
  /\ ignored' = ignored \cup {uri}
  /\ status' = IF isActiveFile THEN refreshCommand(ignored', status) ELSE status
  /\ trace' = Append(trace, Ran("addIgnoredPath", uri, FALSE))
  /\ UNCHANGED <<disk, file, xml, indent, out, hist, config, pending, timer, prompts, active>>

\* clearIgnoredPathsCommand
ClearIgnoredPathsCommand ==
  /\ UNCHANGED cacheVars
  /\ NEvents < MaxEvents
  /\ ignored' = {}
  /\ status' = refreshCommand({}, status)
  /\ trace' = Append(trace, Ran("clearIgnoredPaths", NoEditor, FALSE))
  /\ UNCHANGED <<disk, file, xml, indent, out, hist, config, pending, timer, prompts, active>>

(***************************************************************************)
(* The Cache.  projects is the Map in insertion order; a Csproj instance  *)
(* is known by its index in instances.  A call that awaits is a task: it  *)
(* goes on in a later step, and other calls and watcher events run in     *)
(* between.  findProject resolves the project of a file and calls         *)
(* openProject, so OpenProject stands for both.                            *)
(***************************************************************************)
NoKey == <<>>
IsCacheCall(e) == e.op \in {"start", "hit", "invalidate", "clear"}
\* the calls made on the cache so far
NCalls == Len(SelectSeq(log, IsCacheCall))
\* the number of calls on the cache in one run
MaxCacheCalls == 3

\* this.projects.get(key): the instance, 0 for undefined
MapGet(map, key) ==
  LET at == {i \in 1..Len(map) : map[i].key = key}
  IN IF at = {} THEN 0 ELSE map[CHOOSE i \in at : TRUE].id

\* this.projects.set(key, csproj): a key that is present keeps its place
MapSet(map, key, id) ==
  IF MapGet(map, key) = 0 THEN Append(map, [key |-> key, id |-> id])
  ELSE [i \in 1..Len(map) |-> IF map[i].key = key THEN [key |-> key, id |-> id] ELSE map[i]]

RECURSIVE MapDelete(_, _)
\* this.projects.delete(key)
MapDelete(map, key) ==
  IF map = <<>> THEN <<>>
  ELSE IF Head(map).key = key THEN Tail(map)
  ELSE <<Head(map)>> \o MapDelete(Tail(map), key)

\* openProject, up to its return or to the await of Csproj.open
OpenProject(key) ==
  /\ NCalls < MaxCacheCalls
  /\ IF MapGet(projects, key) # 0
     THEN /\ log' = Append(log, Logged("hit", key, MapGet(projects, key), Len(log) + 1))
          /\ UNCHANGED tasks
     ELSE /\ log' = Append(log, Logged("start", key, 0, Len(log) + 1))
          /\ tasks' = tasks \cup {Logged("openProject", key, 0, Len(log) + 1)}
  /\ UNCHANGED <<disk, file, xml, indent, out, hist, config, ignored, pending, timer, prompts, trace,
                 status, active, instances, projects>>

\* Csproj.open: workspace.fs.readFile reads the file, and the Csproj is made of
\* what was read
ReadFile(t) ==
  /\ t \in tasks /\ t.op = "openProject" /\ t.id = 0
  /\ instances' = Append(instances, [key |-> t.key, text |-> disk[t.key]])
  /\ tasks' = (tasks \ {t}) \cup {[t EXCEPT !.id = Len(instances) + 1]}
  /\ log' = Append(log, Logged("read", t.key, Len(instances) + 1, t.at))
  /\ UNCHANGED <<disk, file, xml, indent, out, hist, config, ignored, pending, timer, prompts, trace,
                 status, active, projects>>

\* openProject after the await: this.projects.set(key, csproj); return csproj
OpenReturn(t) ==
  /\ t \in tasks /\ t.op = "openProject" /\ t.id # 0
  /\ projects' = MapSet(projects, t.key, t.id)
  /\ tasks' = tasks \ {t}
  /\ log' = Append(log, Logged("return", t.key, t.id, t.at))
  /\ UNCHANGED <<disk, file, xml, indent, out, hist, config, ignored, pending, timer, prompts, trace,
                 status, active, instances>>

\* invalidate(uri), run by hand or by the watcher on onDidChange and onDidDelete
Invalidate(key) ==
  /\ NCalls < MaxCacheCalls
  /\ projects' = MapDelete(projects, key)
  /\ log' = Append(log, Logged("invalidate", key, MapGet(projects, key), 0))
  /\ UNCHANGED <<disk, file, xml, indent, out, hist, config, ignored, pending, timer, prompts, trace,
                 status, active, instances, tasks>>

\* csproj.save() of an instance throws when prettify does
saveThrows(id) == prettifyThrows(Parse(instances[id].text))
\* the text csproj.save() of an instance writes
saved(id) ==
  LET doc == Parse(instances[id].text) IN serializeText(prettify(doc, detectIndent(doc)))

\* the loop of clear(true) from the next key of this.projects.keys() to the
\* await of csproj.save(), to the end of the loop or to the error save() throws
clearNext(map, done) ==
  /\ projects' = map
  /\ IF map = <<>>
     THEN /\ log' = Append(done, Logged("cleared", NoKey, 0, 0))
          /\ tasks' = {t \in tasks : t.op # "clear"}
          /\ UNCHANGED disk
     ELSE IF saveThrows(Head(map).id)
     THEN /\ log' = Append(done, Logged("rejected", Head(map).key, Head(map).id, 0))
          /\ tasks' = {t \in tasks : t.op # "clear"}
          /\ UNCHANGED disk
     ELSE /\ log' = Append(done, Logged("save", Head(map).key, Head(map).id, 0))
          /\ tasks' = {t \in tasks : t.op # "clear"} \cup {Logged("clear", Head(map).key, Head(map).id, 0)}
          /\ disk' = [disk EXCEPT ![Head(map).key] = saved(Head(map).id)]

\* clear(doSave), as deactivate calls it with true; without a save no call awaits
\* anything but a result, and the loop runs to its end
Clear(doSave) ==
  /\ NCalls < MaxCacheCalls
  /\ \A t \in tasks : t.op # "clear"
  /\ IF doSave THEN clearNext(projects, Append(log, Logged("clear", NoKey, 0, 1)))
     ELSE /\ projects' = <<>>
          /\ log' = log \o <<Logged("clear", NoKey, 0, 0), Logged("cleared", NoKey, 0, 0)>>
          /\ UNCHANGED <<disk, tasks>>
  /\ UNCHANGED <<file, xml, indent, out, hist, config, ignored, pending, timer, prompts, trace,
                 status, active, instances>>

\* invalidateInternal after the await of csproj.save(): this.projects.delete(key),
\* and the loop of clear goes on
ClearResume(t) ==
  /\ t \in tasks /\ t.op = "clear"
  /\ clearNext(MapDelete(projects, t.key),
               Append(log, Logged("delete", t.key, MapGet(projects, t.key), 0)))
  /\ UNCHANGED <<file, xml, indent, out, hist, config, ignored, pending, timer, prompts, trace,
                 status, active, instances>>

(***************************************************************************)
(* Spec: a manifest is opened and items are added, removed and the        *)
(* document serialized, in any order.                                      *)
(***************************************************************************)
Init == \E text \in Manifests : Open(text)

Next ==
  \/ \E t \in ItemTypes, u \in Uris : NMut < MaxOps /\ AddItem(t, u)
  \/ \E u \in Uris : NMut < MaxOps /\ RemoveItem(u)
  \/ Serialize

Spec == Init /\ [][Next]_vars

(***************************************************************************)
(* SpecRoundTrip: a manifest in canonical pretty form is opened and       *)
(* serialized or saved, with no mutation.                                  *)
(***************************************************************************)
TwoSpaces == <<SP, SP>>
FourSpaces == <<SP, SP, SP, SP>>
Newlines == {<<LF>>, <<CR, LF>>}
Units == {TwoSpaces, FourSpaces, <<TAB>>}

Shapes ==
  { ProjectOf(<<>>),
    MixedProject,
    ProjectOf(<<ItemGroupOf(<<Item("Compile", Test1)>>)>>),
    ProjectOf(<<ItemGroupOf(<<Item("Compile", Test1), Item("Compile", Test2)>>)>>),
    ProjectOf(<<ItemGroupOf(<<Item("Compile", Test1)>>), ItemGroupOf(<<Item("Content", Index)>>)>>),
    ProjectOf(<<ItemGroupOf(<<>>)>>),
    ProjectOf(<<Element("PropertyGroup", <<>>, <<Metadata("Nullable", <<NonWs>>)>>)>>),
    ProjectOf(<<Element("PropertyGroup", <<>>, <<Metadata("Description", <<NonWs, SP, NonWs>>)>>),
                ItemGroupOf(<<Item("Content", Index)>>)>>),
    ProjectOf(<<ItemGroupOf(<<Element("Compile", Include(Test1), <<Metadata("Link", <<NonWs>>)>>),
                              Item("Compile", Index)>>)>>),
    Element("Project", <<<<"Sdk", <<"Microsoft.NET.Sdk">>>>>>,
            <<ItemGroupOf(<<Element("Content", Include(Index),
                                    <<Metadata("Link", <<NonWs>>), Metadata("Pack", <<NonWs>>)>>)>>)>>) }

CanonicalManifests == {Canonical(shape, nl, unit) : shape \in Shapes, nl \in Newlines, unit \in Units}

\* the number of serialize and save calls of one run without mutation
MaxCalls == 2

InitRoundTrip == \E text \in CanonicalManifests : Open(text)

NextRoundTrip ==
  \/ Len(hist) < MaxCalls /\ Serialize
  \/ \E to \in Locations : Len(hist) < MaxCalls /\ Save(to)

SpecRoundTrip == InitRoundTrip /\ [][NextRoundTrip]_vars

(***************************************************************************)
(* SpecScenario: the items of the addItem() test are added, in any order, *)
(* to a project without items, written on one line or as CSP_EMPTY.       *)
(***************************************************************************)
ScenarioItems == {<<"Compile", Test1>>, <<"TypescriptCompile", Test2>>, <<"Content", Test3>>}

\* the number of addItem calls of one scenario run
MaxAdds == 3

InitScenario == \E text \in {CompactEmpty, CspEmpty} : Open(text)

NextScenario ==
  \/ \E i \in ScenarioItems : NMut < MaxAdds /\ AddItem(i[1], i[2])
  \/ Serialize

SpecScenario == InitScenario /\ [][NextScenario]_vars

(***************************************************************************)
(* SpecGroups: items of two types are added to and removed from a project *)
(* opened without an ItemGroup: CSP_EMPTY, or one with a property group.  *)
(***************************************************************************)
GroupItems == {<<"Compile", Test1>>, <<"Compile", Test2>>, <<"TypescriptCompile", Test2>>}
GroupUris == {Test1, Test2}

\* the number of addItem and removeItem calls of one run
MaxEdits == 3

InitGroups == \E text \in {CspEmpty, CspProperties} : Open(text)

NextGroups ==
  \/ \E i \in GroupItems : NMut < MaxEdits /\ AddItem(i[1], i[2])
  \/ \E u \in GroupUris : NMut < MaxEdits /\ RemoveItem(u)
  \/ Serialize

SpecGroups == InitGroups /\ [][NextGroups]_vars

(***************************************************************************)
(* SpecComments: the manifests opened hold comments or character data,    *)
(* in a Project with and without element children.                         *)
(***************************************************************************)
\* a Project holding a comment and no element
CspCommentOnly == Canonical(ProjectOf(<<Comment(<<NonWs>>)>>), <<LF>>, <<SP, SP>>)
\* a Project holding a comment and a group with one item
CspCommentItem ==
  Canonical(ProjectOf(<<Comment(<<NonWs>>), ItemGroupOf(<<Item("Compile", Test1)>>)>>), <<LF>>, <<SP, SP>>)
\* a Project holding character data and no element
CspTextOnly == Canonical(Element("Project", <<>>, <<Text(<<NonWs>>)>>), <<LF>>, <<SP, SP>>)

\* a group whose last child is a text node mixing text with whitespace, as in
\* the trimEnd test "should not trim non-whitespace children", and a second group
CspMixedText ==
  <<DeclTok(XmlDecl), TextTok(<<LF>>), OpenTok("Project", <<>>),
    TextTok(<<LF, SP, SP>>), OpenTok("ItemGroup", <<>>),
    TextTok(<<LF, SP, SP, SP, SP>>), EmptyTok("Compile", Include(Test1), " />"),
    TextTok(<<NonWs, LF, SP, SP>>), CloseTok("ItemGroup"),
    TextTok(<<LF, SP, SP>>), OpenTok("ItemGroup", <<>>),
    TextTok(<<LF, SP, SP, SP, SP>>), EmptyTok("Content", Include(Index), " />"),
    TextTok(<<LF, SP, SP>>), CloseTok("ItemGroup"),
    TextTok(<<LF>>), CloseTok("Project"), TextTok(<<LF>>)>>

CommentManifests == {CspCommentOnly, CspCommentItem, CspTextOnly, CspMetadata, CspMixedText}

InitComments == \E text \in CommentManifests : Open(text)

SpecComments == InitComments /\ [][Next]_vars

(***************************************************************************)
(* SpecRemoval: a manifest in canonical pretty form is opened, and items  *)
(* are removed from it and the document serialized.                        *)
(***************************************************************************)
Test2Cs == <<"tmp", "src", "Test2.cs">>
Test3Cs == <<"tmp", "src", "Test3.cs">>
\* CSP_MULTIPLE_BEFORE of the tests
CspMultipleBefore ==
  Canonical(ProjectOf(<<ItemGroupOf(<<Item("Compile", Test1), Item("Compile", Test2Cs), Item("Compile", Test3Cs)>>)>>),
            <<LF>>, <<SP, SP>>)
\* two groups of two items
CspTwoGroups ==
  Canonical(ProjectOf(<<ItemGroupOf(<<Item("Compile", Test1), Item("Compile", Test2Cs)>>),
                        ItemGroupOf(<<Item("Content", Index), Item("Content", Test3)>>)>>),
            <<LF>>, <<SP, SP>>)

RemovalManifests == {CspMultipleBefore, CspItemGroupBefore, CspTwoGroups}
RemovalUris == {Test1, Test2Cs, Test3Cs, Index, Test3}
\* the number of removeItem calls of one run
MaxRemovals == 3

InitRemoval == \E text \in RemovalManifests : Open(text)

NextRemoval ==
  \/ \E u \in RemovalUris : NMut < MaxRemovals /\ RemoveItem(u)
  \/ Serialize

SpecRemoval == InitRemoval /\ [][NextRemoval]_vars

(***************************************************************************)
(* SpecDetect: the documents opened differ in the text nodes detectIndent *)
(* reads: with or without a declaration, the characters between the       *)
(* top-level nodes, and the characters after the Project start tag.       *)
(***************************************************************************)
\* the characters between the declaration, the Project element and the end
Gaps == {<<>>, <<LF>>, <<CR, LF>>, <<LF, LF>>, <<LF, SP, SP>>}
\* a Project without children, written <Project/>
NoChildren == <<"none">>
\* the characters between <Project> and its first child element
Insides == {NoChildren, <<>>, <<LF, SP, SP>>, <<LF, TAB>>, <<CR, LF, SP, SP>>, <<LF>>,
            <<LF, LF, SP, SP>>, <<SP, SP>>, <<NonWs>>}

DetectText(decl, gap, inside) ==
  LET head == IF decl THEN <<DeclTok(XmlDecl)>> ELSE <<>>
      body == IF inside = NoChildren THEN <<EmptyTok("Project", <<>>, "/>")>>
              ELSE Cat(Cat(<<OpenTok("Project", <<>>)>>, Chars(inside)),
                       Cat(<<EmptyTok("ItemGroup", <<>>, " />")>>, Cat(Chars(gap), <<CloseTok("Project")>>)))
  IN Cat(Cat(head, Chars(gap)), Cat(body, Chars(gap)))

DetectTexts == {DetectText(decl, gap, inside) : decl \in BOOLEAN, gap \in Gaps, inside \in Insides}

\* the number of addItem calls of one run
MaxDetectOps == 1

InitDetect == \E text \in DetectTexts : Open(text)

NextDetect ==
  \/ NMut < MaxDetectOps /\ AddItem("Compile", Test1)
  \/ Serialize

SpecDetect == InitDetect /\ [][NextDetect]_vars

(***************************************************************************)
(* SpecPaths: the paths asked for are paths of items of the project, of   *)
(* files that are not in it, and of a file with a quote in its name.      *)
(***************************************************************************)
\* a file named " in the src directory
QuoteFile == <<"tmp", "src", QUOTE>>

PathManifests == {CspEmpty, CspItemGroupBefore, CspMultipleBefore}
PathUris == {Test1, Test2, QuoteFile}
\* the number of addItem and removeItem calls of one run
MaxPathOps == 2

InitPaths == \E text \in PathManifests : Open(text)

NextPaths ==
  \/ \E u \in PathUris : NMut < MaxPathOps /\ AddItem("Compile", u)
  \/ \E u \in PathUris : NMut < MaxPathOps /\ RemoveItem(u)
  \/ Serialize

SpecPaths == InitPaths /\ [][NextPaths]_vars

(***************************************************************************)
(* SpecCommands: the extension is activated with any of the settings, and *)
(* the commands are run on files and on a directory of the workspace,     *)
(* by hand and on file events.                                             *)
(***************************************************************************)
AutoSettings == {ON, PROMPT, OFF}
\* the settings: includeRegex unset or matching the .cs files, excludeRegex
\* unset or matching the .ts files
Configs == [autoAdd : AutoSettings, autoRemove : AutoSettings, includeRegex : {Unset, ".cs"}, excludeRegex : {Unset, ".ts"}]

\* a project holding src\Test1.cs and src\Test2.ts
CspSources ==
  Canonical(ProjectOf(<<ItemGroupOf(<<Item("Compile", Test1)>>), ItemGroupOf(<<Item("TypeScriptCompile", Test2)>>)>>),
            <<LF>>, <<SP, SP>>)

CommandManifests == {CspEmpty, CspSources}
CommandUris == {Test1, Test2, SrcDir}

InitCommands == \E text \in CommandManifests, settings \in Configs : Load(text) /\ Activate(settings)

NextCommands ==
  \/ \E u \in CommandUris, isEvent \in BOOLEAN : AddCommand(u, isEvent)
  \/ \E u \in CommandUris, isEvent \in BOOLEAN : RemoveCommand(u, isEvent)
  \/ RemovePending
  \/ \E i \in 1..Len(prompts), d \in {Yes, No, Never} : AnswerAdd(i, d)
  \/ \E i \in 1..Len(prompts), d \in {Yes, No} : AnswerRemove(i, d)
  \/ \E t \in tasks : RemovePendingResume(t)

SpecCommands == InitCommands /\ [][NextCommands]_vars

(***************************************************************************)
(* SpecEvents: the extension is activated with any of the settings; text  *)
(* editors are switched to, documents are saved, prompts are answered,    *)
(* paths are ignored and the ignore list is cleared.  The project has no  *)
(* item at first.                                                          *)
(***************************************************************************)
\* the settings: includeRegex and excludeRegex unset or matching the .cs files
\* when autoAdd asks, and unset when it does not
EventConfigs ==
  {c \in [autoAdd : AutoSettings, autoRemove : {PROMPT}, includeRegex : {Unset, ".cs"}, excludeRegex : {Unset, ".cs"}] :
     c.autoAdd = PROMPT \/ (c.includeRegex = Unset /\ c.excludeRegex = Unset)}
EventFiles == {Test1, Index}

InitEvents == \E settings \in EventConfigs : Load(CspEmpty) /\ Activate(settings)

NextEvents ==
  \/ \E u \in EventFiles : ChangeActiveTextEditor(u)
  \/ \E u \in EventFiles : SaveTextDocument(u)
  \/ \E i \in 1..Len(prompts), d \in {Yes, No, Never} : AnswerAdd(i, d)
  \/ \E u \in EventFiles, isActiveFile \in BOOLEAN : AddIgnoredPathCommand(u, isActiveFile)
  \/ ClearIgnoredPathsCommand

SpecEvents == InitEvents /\ [][NextEvents]_vars

(***************************************************************************)
(* SpecCache: two project files, one an empty project and the other an    *)
(* empty project or an empty file; projects are opened, invalidated and   *)
(* the cache is cleared, the calls overlapping in any way.                 *)
(***************************************************************************)
CacheTexts == {CspEmpty, <<>>}

InitCache ==
  /\ disk \in {d \in [Locations -> CacheTexts] : d[ProjectUri] = CspEmpty}
  /\ file = disk[ProjectUri]
  /\ xml = Parse(file)
  /\ indent = detectIndent(xml)
  /\ out = <<>>
  /\ hist = <<>>
  /\ Activate(DefaultConfig)

NextCache ==
  \/ \E key \in Locations : OpenProject(key)
  \/ \E t \in tasks : ReadFile(t)
  \/ \E t \in tasks : OpenReturn(t)
  \/ \E key \in Locations : Invalidate(key)
  \/ \E doSave \in BOOLEAN : Clear(doSave)
  \/ \E t \in tasks : ClearResume(t)

SpecCache == InitCache /\ [][NextCache]_vars

(***************************************************************************)
(* SpecDirectory: the Csproj on linkedom is opened on projects written on *)
(* one line or in canonical pretty form, holding items of files in src,   *)
(* in lib\src and in the project directory, and removeItem is called for   *)
(* directories and for files.                                              *)
(***************************************************************************)
LibDir == <<"tmp", "lib">>
LibSrcDir == <<"tmp", "lib", "src">>
\* the file lib/src/Other.cs
LibSrcOther == <<"tmp", "lib", "src", "Other.cs">>

DirectoryFiles == {Test1, Test2, Index, LibSrcOther}
Directories == {SrcDir, LibDir, LibSrcDir}

\* the projects: one ItemGroup with an item, two or three of the items, or two
\* ItemGroups, the second holding the item of lib\src\Other.cs
DirectoryShapes ==
  {ProjectOf(<<ItemGroupOf(<<Item("Compile", Test1)>>)>>),
   ProjectOf(<<ItemGroupOf(<<Item("Compile", LibSrcOther)>>)>>),
   ProjectOf(<<ItemGroupOf(<<Item("Compile", Test1), Item("Compile", LibSrcOther)>>)>>),
   ProjectOf(<<ItemGroupOf(<<Item("Compile", Test1), Item("TypeScriptCompile", Test2)>>)>>),
   ProjectOf(<<ItemGroupOf(<<Item("Compile", Test1), Item("Content", Index)>>)>>),
   ProjectOf(<<ItemGroupOf(<<Item("Compile", Test1), Item("TypeScriptCompile", Test2), Item("Content", Index)>>)>>),
   ProjectOf(<<ItemGroupOf(<<Item("Compile", Test1), Item("Content", Index)>>),
               ItemGroupOf(<<Item("Compile", LibSrcOther)>>)>>)}

DirectoryManifests ==
  {Canonical(shape, <<LF>>, <<SP, SP>>) : shape \in DirectoryShapes}
    \cup {Canonical(shape, <<>>, <<>>) : shape \in DirectoryShapes}

\* the number of removeItem calls of one run
MaxDirectoryOps == 2

InitDirectory == \E text \in DirectoryManifests : Open(text)

NextDirectory ==
  \/ \E u \in Directories : NMut < MaxDirectoryOps /\ RemoveItemDom(u, TRUE)
  \/ \E u \in DirectoryFiles : NMut < MaxDirectoryOps /\ RemoveItemDom(u, FALSE)

SpecDirectory == InitDirectory /\ [][NextDirectory]_vars

(***************************************************************************)
(* SpecRoots: the manifests opened are well-formed XML documents whose    *)
(* root element is named Project or has another name.                      *)
(***************************************************************************)
\* a document whose root element is named Root, without children
CspOtherRoot == Canonical(Element("Root", <<>>, <<>>), <<LF>>, <<SP, SP>>)
\* a document whose root element is named Root, holding src\Test1.cs
CspOtherRootItem ==
  Canonical(Element("Root", <<>>, <<ItemGroupOf(<<Item("Compile", Test1)>>)>>), <<LF>>, <<SP, SP>>)

RootManifests == {CspEmpty, CspOtherRoot, CspOtherRootItem}
\* the number of addItem calls of one run
MaxRootOps == 2

InitRoots == \E text \in RootManifests : Open(text)

NextRoots ==
  \/ \E t \in {"Compile", "Content"}, u \in Uris : NMut < MaxRootOps /\ AddItem(t, u)
  \/ Serialize

SpecRoots == InitRoots /\ [][NextRoots]_vars

(***************************************************************************)
(* SpecUpdates: addCommand is run by hand on files of one project, the    *)
(* calls overlapping in any way.  A call awaits the read of the project   *)
(* file when the project is not cached; csproj.save() is not awaited, so  *)
(* its write reaches the file later, and the watcher of the cache reports *)
(* every write as a change.  A Csproj instance holds the text it was made *)
(* of and its document.                                                    *)
(***************************************************************************)
UpdateManifests == {CspEmpty, CspSources}
UpdateUris == {Test1, Test2, Index}
\* the number of addCommand calls of one run
MaxUpdates == 2

\* an addCommand on a file that awaits the project
Adding(uri, at) == [op |-> "addCommand", key |-> ProjectUri, id |-> 0, at |-> at, uri |-> uri]
\* a writeFile that has not reached the file
Writing(key, data, at) == [op |-> "writeFile", key |-> key, id |-> 0, at |-> at, data |-> data]

Begun == SelectSeq(log, LAMBDA e : e.op = "addCommand")
\* the calls awaiting a read or a write of the project file
InFlight == {t \in tasks : t.op \in {"addCommand", "writeFile"}}

\* Csproj.open(uri) on what readFile gave
CsprojOf(key, text) == [key |-> key, text |-> text, xml |-> Parse(text)]

\* the text csproj.save() hands to writeFile
serialized(csproj) ==
  serializeText(prettify(csproj.xml, detectIndent(Parse(csproj.text))))

\* addFileInternal called by hand on the instance id of all, and csproj.save()
\* up to the await of writeFile when the file was added
addFileAndSave(all, id, uri, rest, at) ==
  LET csproj == all[id]
      added == [csproj EXCEPT !.xml = addItem(csproj.xml, csproj.key, getItemTypeForFile(uri), uri)]
  IN IF hasItem(csproj.xml, csproj.key, uri)
     THEN /\ instances' = all
          /\ tasks' = rest
          /\ UNCHANGED hist
     ELSE /\ instances' = [all EXCEPT ![id] = added]
          /\ hist' = Append(hist, Call("addItem", getItemTypeForFile(uri), uri, id))
          /\ tasks' = rest \cup {Writing(csproj.key, serialized(added), at)}

\* addCommand(uri) by hand on a file, from the return of stat to the await of
\* Csproj.open, or to its end when the project is cached
AddCommandFile(uri) ==
  /\ Len(Begun) < MaxUpdates
  /\ \A i \in 1..Len(Begun) : Begun[i].key # uri
  /\ log' = Append(log, Logged("addCommand", uri, Cardinality(InFlight), Len(log) + 1))
  /\ IF MapGet(projects, ProjectUri) # 0
     THEN addFileAndSave(instances, MapGet(projects, ProjectUri), uri, tasks, Len(log) + 1)
     ELSE /\ tasks' = tasks \cup {Adding(uri, Len(log) + 1)}
          /\ UNCHANGED <<instances, hist>>
  /\ UNCHANGED <<disk, file, xml, indent, out, config, ignored, pending, timer, prompts, trace,
                 status, active, projects>>

\* Csproj.open of an addCommand: readFile reads the file
AddCommandRead(t) ==
  /\ t \in tasks /\ t.op = "addCommand" /\ t.id = 0
  /\ instances' = Append(instances, CsprojOf(t.key, disk[t.key]))
  /\ tasks' = (tasks \ {t}) \cup {[t EXCEPT !.id = Len(instances) + 1]}
  /\ UNCHANGED <<disk, file, xml, indent, out, hist, config, ignored, pending, timer, prompts, trace,
                 status, active, projects, log>>

\* an addCommand after the await of Csproj.open: openProject sets the instance
\* in the cache, and addFileInternal and csproj.save() are called on it
AddCommandResume(t) ==
  /\ t \in tasks /\ t.op = "addCommand" /\ t.id # 0
  /\ projects' = MapSet(projects, t.key, t.id)
  /\ addFileAndSave(instances, t.id, t.uri, tasks \ {t}, t.at)
  /\ UNCHANGED <<disk, file, xml, indent, out, config, ignored, pending, timer, prompts, trace,
                 status, active, log>>

\* the writeFile of a save reaches the file, the writes in the order of their
\* calls, and the watcher will report the change
WriteFile(t) ==
  /\ t \in tasks /\ t.op = "writeFile"
  /\ \A w \in tasks : w.op = "writeFile" => t.at <= w.at
  /\ disk' = [disk EXCEPT ![t.key] = t.data]
  /\ tasks' = (tasks \ {t}) \cup {Logged("change", t.key, 0, t.at)}
  /\ UNCHANGED <<file, xml, indent, out, hist, config, ignored, pending, timer, prompts, trace,
                 status, active, instances, projects, log>>

\* watcher.onDidChange: this.invalidate(uri)
WatcherChange(t) ==
  /\ t \in tasks /\ t.op = "change"
  /\ projects' = MapDelete(projects, t.key)
  /\ tasks' = tasks \ {t}
  /\ UNCHANGED <<disk, file, xml, indent, out, hist, config, ignored, pending, timer, prompts, trace,
                 status, active, instances, log>>

InitUpdates == \E text \in UpdateManifests : Open(text)

NextUpdates ==
  \/ \E u \in UpdateUris : AddCommandFile(u)
  \/ \E t \in tasks : AddCommandRead(t)
  \/ \E t \in tasks : AddCommandResume(t)
  \/ \E t \in tasks : WriteFile(t)
  \/ \E t \in tasks : WatcherChange(t)

SpecUpdates == InitUpdates /\ [][NextUpdates]_vars

(***************************************************************************)
(* What the claims speak of.                                               *)
(***************************************************************************)
Called(op) == \E i \in 1..Len(hist) : hist[i].op = op
LastCall == Last(hist)
JustCalled(op) == hist # <<>> /\ LastCall.op = op

\* the text serialize() would return for a tree, and for a text parsed anew
SerializeOf(doc, ind) == serializeText(prettify(doc, ind))
Reserialize(text) == SerializeOf(Parse(text), detectIndent(Parse(text)))

\* C1: under SpecRoundTrip (a manifest in canonical pretty form, opened and not
\* mutated) the text serialize() returns, and the text save(to) writes, is the
\* text the manifest was opened from.
RoundTripIdentity ==
  /\ Called("serialize") => out = file
  /\ \A to \in Locations : (\E i \in 1..Len(hist) : hist[i] = Call("save", "", to, FALSE)) => disk[to] = file

\* C1 witness: a manifest with "\r\n", tabs and an item with metadata has been
\* serialized and saved to another file
RoundTripWitness ==
  /\ file = CspMetadata
  /\ out = CspMetadata
  /\ hist = <<Call("serialize", "", <<>>, FALSE), Call("save", "", Identical, FALSE)>>
  /\ disk[Identical] = file

\* C2: the text serialize() returns, parsed as a new document and serialized,
\* gives the same text.
ReparseIdempotence == JustCalled("serialize") => Reserialize(out) = out

\* the document as it was opened
Opened == Parse(file)

\* the ItemGroup elements of a document and their element children, the items
Groups(doc) == SelectName(doc, "ItemGroup")
IsItemPath(doc, p) ==
  /\ Len(p) >= 2 /\ isTag(NodeAt(doc, p))
  /\ isTag(NodeAt(doc, Front(p))) /\ NodeAt(doc, Front(p)).name = "ItemGroup"
Items(doc) == SelectSeq(AllPaths(doc), LAMBDA p : IsItemPath(doc, p))

\* the mutations so far are addItem(t, p) then removeItem(p)
AddThenRemove ==
  /\ Len(Mutations) = 2
  /\ Mutations[1].op = "addItem" /\ Mutations[2].op = "removeItem"
  /\ Mutations[2].uri = Mutations[1].uri

\* the text serialize() returns, now and at its last call, is the text it
\* returns for the document as it was opened
SerializesAsOpened ==
  /\ SerializeOf(xml, indent) = SerializeOf(Opened, indent)
  /\ JustCalled("serialize") => out = SerializeOf(Opened, indent)

\* C3: on a document opened with no ItemGroup element, addItem(t, p) followed
\* by removeItem(p), with or without serialize() in between, leaves a document
\* that serializes to the text the opened document serializes to.
AddRemoveInverse == (Groups(Opened) = <<>> /\ AddThenRemove) => SerializesAsOpened

\* C3 witness: an item was added to CSP_EMPTY, the document serialized, the
\* item removed and the document serialized again
AddRemoveWitness ==
  /\ file = CspEmpty
  /\ hist = <<Call("addItem", "Content", Index, FALSE), Call("serialize", "", <<>>, FALSE),
              Call("removeItem", "", Index, TRUE), Call("serialize", "", <<>>, FALSE)>>
  /\ out = CspEmpty

\* C3 as stated: the same on every document opened with no items, an empty
\* ItemGroup or none
AddRemoveInverseNoItems == (Items(Opened) = <<>> /\ AddThenRemove) => SerializesAsOpened

\* the Include value of a file of the project directory: its path from there,
\* with "\" between the segments
MsbuildPath(uri) ==
  CASE uri = Test1 -> <<"src", BSL, "Test1.cs">>
    [] uri = Test2 -> <<"src", BSL, "Test2.ts">>
    [] uri = Test3 -> <<"src", BSL, "Test3.html">>
    [] uri = Index -> <<"index.html">>
    [] uri = Test2Cs -> <<"src", BSL, "Test2.cs">>
    [] uri = Test3Cs -> <<"src", BSL, "Test3.cs">>
    [] uri = QuoteFile -> <<"src", BSL, QUOTE>>
    [] uri = SrcDir -> <<"src">>
NewItem(itemType, uri) == Element(itemType, <<<<"Include", MsbuildPath(uri)>>>>, <<>>)

\* an element named name is a child of the node, or lies anywhere below it
HasChildNamed(node, name) ==
  \E i \in 1..Len(node.children) : isTag(node.children[i]) /\ node.children[i].name = name
RECURSIVE HasNamedBelow(_, _)
HasNamedBelow(node, name) ==
  \E i \in 1..Len(node.children) :
    isTag(node.children[i]) /\ (node.children[i].name = name \/ HasNamedBelow(node.children[i], name))

\* after is before with one element more and nothing else changed: the new item
\* as the last child of the last ItemGroup that holds the item type, or, when
\* no ItemGroup holds it, a new ItemGroup with the new item as the last child
\* of Project
PlacedIn(before, after, itemType, uri, holds(_, _)) ==
  LET groups == Groups(before)
      holding == {i \in 1..Len(groups) : holds(NodeAt(before, groups[i]), itemType)}
      last == CHOOSE i \in holding : \A j \in holding : j <= i
      project == SelectName(before, "Project")[1]
      WithLastChild(path, node) == SetChildren(before, path, Append(NodeAt(before, path).children, node))
  IN IF holding # {} THEN after = WithLastChild(groups[last], NewItem(itemType, uri))
     ELSE after = WithLastChild(project, Element("ItemGroup", <<>>, <<NewItem(itemType, uri)>>))

\* this step is a call of op
Calls(op) == hist' # hist /\ Last(hist').op = op

\* what addItem does: the ItemGroup taken is the last that has an element
\* named itemType anywhere below it, a metadata element of an item included
AddItemPlacementBelow ==
  [][Calls("addItem") =>
       PlacedIn(xml, xml', Last(hist').itemType, Last(hist').uri, HasNamedBelow)]_vars

\* C4: every addItem(itemType, p) puts the new item last in the last ItemGroup
\* that has a child element named itemType, or in a new ItemGroup put last in
\* Project when no ItemGroup has such a child, and changes nothing else.
AddItemPlacement ==
  [][Calls("addItem") =>
       PlacedIn(xml, xml', Last(hist').itemType, Last(hist').uri, HasChildNamed)]_vars

\* the addItem calls whose item no later removeItem call has removed, in the
\* order they were made
Present ==
  LET Kept(i) == /\ Mutations[i].op = "addItem"
                 /\ \A j \in (i + 1)..Len(Mutations) :
                      ~(Mutations[j].op = "removeItem" /\ Mutations[j].uri = Mutations[i].uri)
      F[i \in 0..Len(Mutations)] ==
        IF i = 0 THEN <<>> ELSE IF Kept(i) THEN Append(F[i - 1], Mutations[i]) ELSE F[i - 1]
  IN F[Len(Mutations)]
PresentTypes == {Present[i].itemType : i \in 1..Len(Present)}

\* the element children of the node at a path
ElementsAt(doc, path) == SelectSeq(NodeAt(doc, path).children, isTag)

\* the present items of a type, as elements, in the order they were added
ItemsPresent(present, itemType) ==
  LET of == SelectSeq(present, LAMBDA c : c.itemType = itemType)
  IN [i \in 1..Len(of) |-> NewItem(itemType, of[i].uri)]

\* the ItemGroups of a document with their elements, in document order
GroupElements(doc) == [i \in 1..Len(Groups(doc)) |-> ElementsAt(doc, Groups(doc)[i])]

\* one ItemGroup for each item type present and no other, each holding the
\* present items of its type
OneGroupPerType ==
  LET present == Present
      types == {present[i].itemType : i \in 1..Len(present)}
      groups == GroupElements(xml)
  IN /\ Len(groups) = Cardinality(types)
     /\ \A t \in types : \E i \in 1..Len(groups) : groups[i] = ItemsPresent(present, t)

\* an addItem of a type present adds no ItemGroup, and an addItem of a type
\* not present adds one after all the others
GroupAdded ==
  LET before == GroupElements(xml)
      after == GroupElements(xml')
      call == Last(hist')
  IN IF call.itemType \in PresentTypes
     THEN Len(after) = Len(before)
     ELSE after = Append(before, <<NewItem(call.itemType, call.uri)>>)

\* the text the document was opened from has no ItemGroup tag
OpenedWithoutGroup ==
  \A i \in 1..Len(file) : Kind(file[i]) \in {"open", "empty"} => file[i][2] # "ItemGroup"

\* C5: on a document opened with no ItemGroup, after any addItem and
\* removeItem calls there is one ItemGroup for each item type present and no
\* other, holding the present items of its type in the order they were added;
\* an addItem of a type already present adds no ItemGroup, and an addItem of a
\* type not present adds one ItemGroup, after all the others.
GroupReuse ==
  /\ [](OpenedWithoutGroup => OneGroupPerType)
  /\ [][(OpenedWithoutGroup /\ Calls("addItem")) => GroupAdded]_vars

\* C5 witness: two Compile items with a TypescriptCompile item added between
\* them are in one ItemGroup, before the ItemGroup of the TypescriptCompile item
GroupReuseWitness ==
  /\ file = CspEmpty
  /\ Mutations = <<Call("addItem", "Compile", Test1, FALSE),
                   Call("addItem", "TypescriptCompile", Test2, FALSE),
                   Call("addItem", "Compile", Test2, FALSE)>>
  /\ GroupElements(xml) = << <<NewItem("Compile", Test1), NewItem("Compile", Test2)>>,
                             <<NewItem("TypescriptCompile", Test2)>> >>

\* an element whose Include attribute is the path of uri
Includes(e, uri) == HasAttr(e, "Include") /\ Attr(e, "Include") = MsbuildPath(uri)
Others(elements, uri) == SelectSeq(elements, LAMBDA e : ~Includes(e, uri))

\* C6: after every removeItem(p) no ItemGroup is without an element child: the
\* ItemGroups of the document are those that held an element other than the
\* items of p, in their order and with those elements, and an ItemGroup whose
\* only items were items of p is gone.
EmptyGroupPruning ==
  [][Calls("removeItem") =>
       /\ \A i \in 1..Len(Groups(xml')) : ElementsAt(xml', Groups(xml')[i]) # <<>>
       /\ GroupElements(xml')
            = SelectSeq([i \in 1..Len(Groups(xml)) |-> Others(GroupElements(xml)[i], Last(hist').uri)],
                        LAMBDA elements : elements # <<>>)]_vars

\* C6 witness: removeItem(index.html) on CspMetadata has taken the Content item
\* out of the first ItemGroup, which is kept with its Compile item, and has
\* deleted the second ItemGroup, whose only item it removed
EmptyGroupWitness ==
  /\ file = CspMetadata
  /\ hist = <<Call("removeItem", "", Index, TRUE)>>
  /\ Len(GroupElements(xml)) = 1
  /\ Len(GroupElements(xml)[1]) = 1
  /\ GroupElements(xml)[1][1].name = "Compile" /\ Includes(GroupElements(xml)[1][1], Test1)

\* the items of a document, in document order
ItemList(doc) == [i \in 1..Len(Items(doc)) |-> NodeAt(doc, Items(doc)[i])]

\* C7: removeItem(p) takes out of the document every item whose Include is the
\* path of p, duplicates included, and no other item, and returns true iff
\* there was such an item.
RemoveItemExact ==
  [][Calls("removeItem") =>
       /\ ItemList(xml') = Others(ItemList(xml), Last(hist').uri)
       /\ Last(hist').ret = (\E i \in 1..Len(ItemList(xml)) : Includes(ItemList(xml)[i], Last(hist').uri))]_vars

\* C7 witness: CSP_ITEMGROUP_BEFORE was given a second item for src/Test1.cs,
\* and removeItem(src/Test1.cs) returned true and left the index.html item only
RemoveItemWitness ==
  /\ file = CspItemGroupBefore
  /\ hist = <<Call("addItem", "Content", Test1, FALSE), Call("removeItem", "", Test1, TRUE)>>
  /\ ItemList(xml) = <<NewItem("Content", Index)>>

\* some child of some ItemGroup has the path of uri as its Include
Included(doc, uri) == \E i \in 1..Len(ItemList(doc)) : Includes(ItemList(doc)[i], uri)

\* a call and what hasItem returns after it
HasItemStep ==
  /\ Calls("addItem") => hasItem(xml', ProjectUri, Last(hist').uri)
  /\ Calls("removeItem") => ~hasItem(xml', ProjectUri, Last(hist').uri)
  /\ \A q \in Uris :
       (Calls("serialize") \/ q # Last(hist').uri)
         => (hasItem(xml', ProjectUri, q) = hasItem(xml, ProjectUri, q))

\* C8: hasItem(p) is true iff some child of some ItemGroup has the path of p as
\* its Include; it is true after addItem(t, p), false after removeItem(p), and
\* for every other path it is what it was before the addItem, removeItem or
\* serialize call.
HasItemExact ==
  /\ [](\A p \in Uris : hasItem(xml, ProjectUri, p) = Included(xml, p))
  /\ [][HasItemStep]_vars

\* C8 witness: after addItem("Compile", src/Test1.cs) on CSP_EMPTY and a
\* serialize() call, hasItem is true for src/Test1.cs and false for index.html
HasItemWitness ==
  /\ file = CspEmpty
  /\ hist = <<Call("addItem", "Compile", Test1, FALSE), Call("serialize", "", <<>>, FALSE)>>
  /\ hasItem(xml, ProjectUri, Test1) /\ ~hasItem(xml, ProjectUri, Index)

\* CSP_MODIFIED of the tests
CspModified ==
  Canonical(ProjectOf(<<ItemGroupOf(<<NewItem("Compile", Test1)>>),
                        ItemGroupOf(<<NewItem("TypescriptCompile", Test2)>>),
                        ItemGroupOf(<<NewItem("Content", Test3)>>)>>),
            <<LF>>, <<SP, SP>>)

\* the three addItem calls of the scenario have been made, and then serialize()
ScenarioRun ==
  /\ Mutations = <<Call("addItem", "Compile", Test1, FALSE),
                   Call("addItem", "TypescriptCompile", Test2, FALSE),
                   Call("addItem", "Content", Test3, FALSE)>>
  /\ JustCalled("serialize")

\* C9: after the three addItem calls of the scenario, serialize() returns
\* CSP_MODIFIED (three ItemGroups in the order of the calls, indented by two
\* spaces, one trailing newline) when the document was opened from CSP_EMPTY,
\* where newlines separate the declaration and the Project element; opened from
\* the declaration and <Project /> on one line, it returns a text without any
\* newline or indentation.
ScenarioOutput ==
  /\ (file = CspEmpty /\ ScenarioRun) => out = CspModified
  /\ (file = CompactEmpty /\ ScenarioRun) => \A i \in 1..Len(out) : Kind(out[i]) # "text"

\* C9 witness: the scenario run on CSP_EMPTY has returned CSP_MODIFIED
ScenarioWitness == file = CspEmpty /\ ScenarioRun /\ out = CspModified

\* C9 as stated: the scenario run on the one-line document returns CSP_MODIFIED
ScenarioOutputOneLine == (file = CompactEmpty /\ ScenarioRun) => out = CspModified

\* every childless element of the text is closed with " />"
AllSpaced(text) == \A i \in 1..Len(text) : Kind(text[i]) = "empty" => text[i][4] = " />"

\* C10: in every text serialize() returns, each self-closing tag has a space
\* before "/>", whether the document is indented or on one line.
SelfClosingSpaced == JustCalled("serialize") => AllSpaced(out)

\* the same for the documents with a whitespace unit only
SelfClosingSpacedIndented == (JustCalled("serialize") /\ indent.whitespace # <<>>) => AllSpaced(out)

(***************************************************************************)
(* What serialize() leaves alone.                                          *)
(***************************************************************************)
\* a node without its children
Shallow(node) == [type |-> node.type, name |-> node.name, data |-> node.data, attribs |-> node.attribs]

RECURSIVE ContentOf(_)
\* the nodes of a forest that are not whitespace-only text, in document order
ContentOf(nodes) ==
  IF nodes = <<>> THEN <<>>
  ELSE LET node == Head(nodes)
           own == IF node.type = "text" /\ \A i \in 1..Len(node.data) : node.data[i] \in WsChars
                  THEN <<>> ELSE <<Shallow(node)>>
       IN own \o ContentOf(node.children) \o ContentOf(Tail(nodes))

Content(doc) == ContentOf(doc.children)

\* the step is a serialize() that returned a text
Serialized == hist' # <<>> /\ Last(hist').op = "serialize" /\ ~prettifyThrows(xml)

ProjectHasElement == \E i \in 1..Len(xml.children) :
                       /\ xml.children[i].type = "tag"
                       /\ \E j \in 1..Len(xml.children[i].children) : xml.children[i].children[j].type = "tag"

SerializeKeepsContent == Serialized => Content(xml') = Content(xml)

\* C11: serialize() only inserts or deletes whitespace-only text nodes: the
\* sequence of all other nodes (declaration, elements with their attributes,
\* comments, text that is not whitespace) is the same before and after,
\* including when the Project element has no element children.
FrameWhitespaceOnly == [][SerializeKeepsContent]_vars

SerializeKeepsContentWithElement == (Serialized /\ ProjectHasElement) => Content(xml') = Content(xml)

\* what holds: the same, for a Project with at least one element child
FrameWhitespaceOnlyWithElement == [][SerializeKeepsContentWithElement]_vars

(***************************************************************************)
(* The end of the serialized text.                                         *)
(***************************************************************************)
\* serialize() was the last call and returned a text
Returned == JustCalled("serialize") /\ out # <<ErrorTok>>

\* the top-level nodes after the Project element
ProjectIndex(doc) == CHOOSE i \in 1..Len(doc.children) : doc.children[i].type = "tag" /\ doc.children[i].name = "Project"
AfterProject(doc) == SubSeq(doc.children, ProjectIndex(doc) + 1, Len(doc.children))

DetectedNewline == detectIndent(Opened).newline

\* Project is followed by one text node, holding the detected newline
OneNodeAfterProject == AfterProject(xml) = <<Text(DetectedNewline)>>

IsRootTag(tok) == Kind(tok) \in {"close", "empty"} /\ tok[2] = "Project"

\* the text is the root's closing tag followed by the characters nl and nothing else
EndsWith(text, nl) ==
  IF nl = <<>> THEN text # <<>> /\ IsRootTag(Last(text))
  ELSE Len(text) >= 2 /\ Last(text) = TextTok(nl) /\ IsRootTag(text[Len(text) - 1])

RECURSIVE StripAll(_)
\* a forest without its whitespace-only text nodes
StripAll(nodes) ==
  IF nodes = <<>> THEN <<>>
  ELSE LET node == Head(nodes)
           blank == node.type = "text" /\ \A i \in 1..Len(node.data) : node.data[i] \in WsChars
       IN (IF blank THEN <<>> ELSE <<[node EXCEPT !.children = StripAll(node.children)]>>)
          \o StripAll(Tail(nodes))

\* the canonical pretty form of the elements a document holds, in the layout
\* of the text it was opened from
CanonicalOf(doc) ==
  Canonical(StripAll(<<doc.children[ProjectIndex(doc)]>>)[1], DetectedNewline, detectIndent(Opened).whitespace)

\* a run of whitespace holding two line ends encloses a whitespace-only line
LineEnds(data) == Len(SelectSeq(data, LAMBDA c : c = LF))
NoBlankLine(text) == \A i \in 1..Len(text) : Kind(text[i]) = "text" => LineEnds(text[i][2]) <= 1

\* some item has been removed
Removed == \E i \in 1..Len(hist) : hist[i].op = "removeItem" /\ hist[i].ret

\* C13: starting from a canonical pretty document, after removing any items
\* (first, middle, last or only item of any group) serialize() returns the
\* canonical pretty form of the remaining elements, with no blank or
\* whitespace-only line where the removed nodes were.
RemovalCanonical == (Returned /\ Removed) => (out = CanonicalOf(xml) /\ NoBlankLine(out))

\* what holds: the removals of the removeItem() tests that leave items behind
\* (the second and third item of CSP_MULTIPLE_BEFORE) give the canonical form
RemovalOfTests ==
  (/\ Returned /\ file = CspMultipleBefore
   /\ Mutations = <<Call("removeItem", "", Test2Cs, TRUE), Call("removeItem", "", Test3Cs, TRUE)>>)
  => out = CanonicalOf(xml)

(***************************************************************************)
(* serialize() called again.                                               *)
(***************************************************************************)
\* the step is a serialize() that follows a serialize()
SerializeAgain == JustCalled("serialize") /\ hist' = hist

\* C14: in every state reached by addItem and removeItem calls, a serialize()
\* that directly follows a serialize() on the same instance returns the same
\* text: the text the first call returned is the text of one more call.
SerializeTwice ==
  /\ [](JustCalled("serialize") => out = (IF prettifyThrows(xml) THEN <<ErrorTok>> ELSE SerializeOf(xml, indent)))
  /\ [][SerializeAgain => out' = out]_vars

\* C14 witness: serialize() was called after an addItem and the removal of the
\* first group, which left a whitespace-only line in the text
SerializeTwiceWitness ==
  /\ Returned /\ Called("addItem") /\ Removed
  /\ ~NoBlankLine(out)
  /\ SerializeOf(xml, indent) = out

(***************************************************************************)
(* The indentation detected at open.                                       *)
(***************************************************************************)
\* the data of the text nodes of the opened text, in document order
TextRuns == LET texts == SelectSeq(file, LAMBDA tok : Kind(tok) = "text")
            IN [i \in 1..Len(texts) |-> texts[i][2]]

Blank(data) == \A i \in 1..Len(data) : data[i] \in WsChars

NoIndent == [newline |-> <<>>, whitespace |-> <<>>]

\* the fallback cases of detectIndent
NoFirst == TextRuns = <<>> \/ ~Blank(TextRuns[1])
NoSecond == ~NoFirst /\ (Len(TextRuns) = 1 \/ TextRuns[2] = TextRuns[1] \/ ~Blank(TextRuns[2]))

\* C15: when the document has no text node, or its first text node is not
\* whitespace-only, the indent is {newline "", whitespace ""}; otherwise, when
\* there is no second text node, or the second equals the first, or the second
\* is not whitespace-only, it is {newline: the first text, whitespace: two
\* spaces}.
DetectFallback ==
  /\ NoFirst => indent = NoIndent
  /\ NoSecond => indent = [newline |-> TextRuns[1], whitespace |-> <<SP, SP>>]

\* C15 witness: a document whose second text node is not whitespace-only was
\* opened and serialized with the newline of its first text and two spaces
DetectFallbackWitness ==
  /\ Returned /\ NoSecond /\ Len(TextRuns) >= 2 /\ ~Blank(TextRuns[2])
  /\ indent = [newline |-> <<CR, LF>>, whitespace |-> <<SP, SP>>]

\* both of the first two text nodes are whitespace-only, and they differ
TwoIndents == Len(TextRuns) >= 2 /\ Blank(TextRuns[1]) /\ Blank(TextRuns[2]) /\ TextRuns[2] # TextRuns[1]

IsPrefix(p, t) == Len(p) <= Len(t) /\ SubSeq(t, 1, Len(p)) = p
\* the text without its leading occurrence of first, if it has one
StripLeading(t, first) == IF IsPrefix(first, t) THEN SubSeq(t, Len(first) + 1, Len(t)) ELSE t

NoLineEnd(data) == \A i \in 1..Len(data) : data[i] \notin {LF, CR}

\* C16: when the first two text nodes are both whitespace-only and differ, the
\* newline is the first text, and the whitespace unit is the second text with
\* the leading occurrence of the first removed, and contains no line
\* terminator.
DetectStripsNewline ==
  TwoIndents => /\ indent.newline = TextRuns[1]
                /\ indent.whitespace = StripLeading(TextRuns[2], TextRuns[1])
                /\ NoLineEnd(indent.whitespace)

\* what holds: the newline is the first text, and the unit is the rest of the
\* second text when the second text begins with the first
DetectStripsPrefix ==
  TwoIndents => /\ indent.newline = TextRuns[1]
                /\ IsPrefix(TextRuns[1], TextRuns[2]) => indent.whitespace = StripLeading(TextRuns[2], TextRuns[1])

\* C17: for every document opened, with or without an XML declaration, the
\* newline of the indent is empty or exactly "\n" or "\r\n", and holds no
\* space or tab.
NewlineIsLineEnd == indent.newline \in {<<>>, <<LF>>, <<CR, LF>>}

\* what holds: the same, for a document whose first text node is one line end
\* (a declaration and a Project element on the next line), or that has no text
NewlineIsLineEndDeclared ==
  (TextRuns = <<>> \/ TextRuns[1] \in {<<LF>>, <<CR, LF>>}) => NewlineIsLineEnd

\* every serialize() lays the document out with the indent detected at open
UsesOpenedIndent ==
  (hist' # <<>> /\ Last(hist').op = "serialize" /\ ~prettifyThrows(xml))
    => out' = SerializeOf(xml, detectIndent(Opened))

\* C18: the indent of an instance is computed once, from the document as
\* opened, and never changes; every serialize() uses the values detected at
\* open, whatever addItem, removeItem and serialize calls came before.
IndentFixed ==
  /\ [](indent = detectIndent(Opened))
  /\ [][indent' = indent /\ UsesOpenedIndent]_vars

\* C18 witness: a document opened without whitespace was serialized after an
\* addItem, still without whitespace, although detecting the indentation of the
\* document as it is now would give another result
IndentFixedWitness ==
  /\ Returned /\ Called("addItem")
  /\ indent = NoIndent /\ detectIndent(xml) # NoIndent
  /\ \A i \in 1..Len(out) : Kind(out[i]) # "text"

(***************************************************************************)
(* Paths that match no item.                                               *)
(***************************************************************************)
\* this step is removeItem(p) on a document where no item has the path p
RemovesAbsent == Calls("removeItem") /\ ~Included(xml, Last(hist').uri)

AbsentIsFalse ==
  RemovesAbsent => (~Threw(Last(hist')) /\ Last(hist').ret = FALSE)

\* C19: when no item has the path p as its Include, removeItem(p) returns
\* false and hasItem(p) returns false, and neither raises an error, for every
\* opened document and every path p.
NoMatchIsFalse ==
  /\ [](\A p \in PathUris : ~Included(xml, p) =>
          (~queryThrows(ProjectUri, p) /\ ~hasItem(xml, ProjectUri, p)))
  /\ [][AbsentIsFalse]_vars

AbsentIsFalseUnquoted ==
  (RemovesAbsent /\ QUOTE \notin {Last(hist').uri[i] : i \in 1..Len(Last(hist').uri)})
    => (~Threw(Last(hist')) /\ Last(hist').ret = FALSE)

\* what holds: the same, for the paths that have no quote in them
NoMatchIsFalseUnquoted ==
  /\ [](\A p \in PathUris \ {QuoteFile} : ~Included(xml, p) =>
          (~queryThrows(ProjectUri, p) /\ ~hasItem(xml, ProjectUri, p)))
  /\ [][AbsentIsFalseUnquoted]_vars

(***************************************************************************)
(* Commands run by hand.                                                   *)
(***************************************************************************)
Commands == SelectSeq(trace, IsCommand)
\* every command so far was run by hand
OnlyManual == \A i \in 1..Len(Commands) : ~Commands[i].isEvent
\* every command so far was run by hand, on a file
OnlyManualFiles == \A i \in 1..Len(Commands) : ~Commands[i].isEvent /\ Commands[i].uri \in WorkspaceFiles
\* the last command was cmd, run by hand on uri
LastManual(cmd, uri) == Commands # <<>> /\ Last(Commands) = Ran(cmd, uri, FALSE)
\* nothing is left to run: no timer armed, no prompt open, no call awaiting
Quiet == ~timer /\ prompts = <<>> /\ tasks = {}
\* the files a command on uri is about
Targets(uri) == IF uri \in WorkspaceFiles THEN {uri} ELSE FilesBelow(uri)
\* the user was asked
Asked == \E i \in 1..Len(trace) : trace[i].cmd \in {"askToAdd", "askToRemove"}

\* C20: the commands run by hand are not affected by autoAdd, autoRemove,
\* includeRegex and excludeRegex: with any settings, "Include in project" on a
\* file adds it, "Remove from project" on a file or on a folder removes the
\* items of that file, or of the files of that folder, and the user is not
\* asked.
ManualIgnoresSettings ==
  /\ \A u \in WorkspaceFiles : (OnlyManual /\ LastManual("add", u)) => Included(xml, u)
  /\ \A u \in CommandUris : (OnlyManual /\ Quiet /\ LastManual("remove", u)) =>
        \A f \in Targets(u) : ~Included(xml, f)
  /\ OnlyManual => ~Asked

\* what holds: the same for the commands run by hand on files
ManualFilesIgnoreSettings ==
  /\ \A u \in WorkspaceFiles : (OnlyManualFiles /\ LastManual("add", u)) => Included(xml, u)
  /\ \A u \in WorkspaceFiles : (OnlyManualFiles /\ LastManual("remove", u)) => ~Included(xml, u)
  /\ OnlyManualFiles => ~Asked

(***************************************************************************)
(* The traversal.                                                          *)
(***************************************************************************)
RECURSIVE Below(_, _)
\* the paths, from root, of the nodes n levels below it and deeper
Below(root, level) ==
  IF level = {} THEN {}
  ELSE level \cup Below(root, UNION {{Append(p, i) : i \in 1..Len(NodeAt(root, p).children)} : p \in level})

\* the paths of the nodes under root
Under(root) == Below(root, {<<i>> : i \in 1..Len(root.children)})

RECURSIVE Before(_, _)
\* p comes before q in document order: a parent before its children, siblings in order
Before(p, q) ==
  IF p = <<>> THEN q # <<>>
  ELSE IF q = <<>> THEN FALSE
  ELSE IF Head(p) # Head(q) THEN Head(p) < Head(q)
  ELSE Before(Tail(p), Tail(q))

\* the place of the node at p among the nodes under root, in document order
Place(root, p) == Cardinality({q \in Under(root) : Before(q, p)}) + 1

\* getNodes(doc, root) yields each node under root once, at its place, with its depth
WalksInOrder(root) ==
  /\ Len(getNodes(root)) = Cardinality(Under(root))
  /\ \A p \in Under(root) :
       getNodes(root)[Place(root, p)] = [node |-> NodeAt(root, p), depth |-> Len(p) - 1]

\* C24: getNodes(doc, root) yields every node under root exactly once, in
\* depth-first document order, with depth 0 for the children of root and one
\* more per nesting level, for the document root and for every node taken as
\* root.
GetNodesInOrder ==
  /\ WalksInOrder(xml)
  /\ \A p \in Under(xml) : WalksInOrder(NodeAt(xml, p))

\* C24 witness: a serialized document whose traversal reaches the text of a
\* metadata element, four levels below the root's children, after nodes of
\* lesser depth
GetNodesWitness ==
  /\ Called("serialize")
  /\ \E i \in 2..Len(getNodes(xml)) :
       /\ getNodes(xml)[i].depth = 4 /\ getNodes(xml)[i].node.type = "text"
       /\ getNodes(xml)[i - 1].depth = 3
       /\ i < Len(getNodes(xml)) /\ getNodes(xml)[i + 1].depth < 4

(***************************************************************************)
(* The trimming functions.                                                 *)
(***************************************************************************)
\* the paths of the nodes that have children, the document root included
Parents == {p \in Under(xml) \cup {<<>>} : NodeAt(xml, p).children # <<>>}

\* the sibling before, or after, index i is absent or is not whitespace-only text
NoBlankBefore(siblings, i) == i = 1 \/ ~Blank(siblings[i - 1].data) \/ siblings[i - 1].type # "text"
NoBlankAfter(siblings, i) == i = Len(siblings) \/ ~Blank(siblings[i + 1].data) \/ siblings[i + 1].type # "text"

\* the index of the i-th sibling after trimBefore on it
Moved(siblings, i) == i - (Len(siblings) - Len(trimBefore(siblings, i)))

TrimsAllAt(siblings, i) ==
  /\ NoBlankBefore(trimBefore(siblings, i), Moved(siblings, i))
  /\ NoBlankBefore(siblings, i) => trimBefore(siblings, i) = siblings
  /\ NoBlankAfter(trimAfter(siblings, i), i)
  /\ NoBlankAfter(siblings, i) => trimAfter(siblings, i) = siblings

\* C25: after trimBefore(node) the previous sibling of node is absent or is
\* not a whitespace-only text node, and the tree is unchanged when it was not
\* one before; trimAfter(node) does the same for the next sibling; for every
\* node of every tree, trees where removals left several whitespace text nodes
\* next to each other included.
TrimsAll ==
  \A p \in Parents : \A i \in 1..Len(NodeAt(xml, p).children) : TrimsAllAt(NodeAt(xml, p).children, i)

TrimsOneAt(siblings, i) ==
  /\ trimBefore(siblings, i) = IF NoBlankBefore(siblings, i) THEN siblings
                               ELSE SubSeq(siblings, 1, i - 2) \o SubSeq(siblings, i, Len(siblings))
  /\ trimAfter(siblings, i) = IF NoBlankAfter(siblings, i) THEN siblings
                              ELSE SubSeq(siblings, 1, i) \o SubSeq(siblings, i + 2, Len(siblings))

\* what holds: trimBefore and trimAfter take out the one sibling next to the
\* node when it is whitespace-only text, and nothing else
TrimsOne ==
  \A p \in Parents : \A i \in 1..Len(NodeAt(xml, p).children) : TrimsOneAt(NodeAt(xml, p).children, i)

BlankText(node) == node.type = "text" /\ Blank(node.data)

TrimsEndOf(children) ==
  LET kept == trimEnd(children)
  IN /\ Len(kept) <= Len(children) /\ kept = SubSeq(children, 1, Len(kept))
     /\ kept = <<>> \/ ~BlankText(kept[Len(kept)])
     /\ \A i \in (Len(kept) + 1)..Len(children) : BlankText(children[i])

\* C26: trimEnd(node) deletes exactly the whitespace-only text nodes at the
\* end of node's children, all of them: afterwards the last child, if any, is
\* not whitespace-only, and every other child is kept, in its order,
\* whitespace-only text nodes before a kept child included.
TrimEndExact == \A p \in Parents : TrimsEndOf(NodeAt(xml, p).children)

\* C26 witness: after a removal some element ends with two whitespace-only
\* text nodes, both deleted by trimEnd, and keeps one before an element; another
\* element ends with a text node mixing text with whitespace and keeps it
TrimEndWitness ==
  /\ Removed
  /\ \E p \in Parents :
       LET children == NodeAt(xml, p).children
           kept == trimEnd(children)
       IN /\ Len(children) - Len(kept) >= 2
          /\ \E i \in 1..Len(kept) : BlankText(kept[i])
  /\ \E p \in Parents :
       LET children == NodeAt(xml, p).children
           last == children[Len(children)]
       IN /\ last.type = "text" /\ ~Blank(last.data) /\ \E i \in 1..Len(last.data) : last.data[i] \in WsChars
          /\ trimEnd(children) = children


(***************************************************************************)
(* Prettify postcondition.                                                 *)
(***************************************************************************)
\* the last call prettified the tree: serialize and save both call prettify
Prettified == hist # <<>> /\ LastCall.op \in {"serialize", "save"}

\* the text prettify writes for depth d
Indentation(d) == Text(indent.newline \o Repeat(indent.whitespace, d))

Elements == {p \in Under(xml) : isTag(NodeAt(xml, p))}

\* the element at p, at depth Len(p) - 1, directly follows its indentation
OpeningIndent(p) ==
  /\ Last(p) > 1
  /\ NodeAt(xml, Append(Front(p), Last(p) - 1)) = Indentation(Len(p) - 1)

\* an element with an element child ends with its own indentation; an element
\* without one ends with no whitespace-only text node
ClosingIndent(p) ==
  LET children == NodeAt(xml, p).children
  IN IF HasElement(NodeAt(xml, p))
     THEN children[Len(children)] = Indentation(Len(p) - 1)
     ELSE children = <<>> \/ ~BlankText(children[Len(children)])

\* C27: when the detected whitespace unit is not empty, after prettify every
\* element at depth d directly follows a text node equal to the newline plus d
\* whitespace units, every element with an element child has that same text as
\* its last child, and an element without element children has no closing indent
PrettifyPostcondition ==
  (Prettified /\ indent.whitespace # <<>>) =>
    \A p \in Elements : OpeningIndent(p) /\ ClosingIndent(p)

\* C27 witness: prettify ran after a removal, on a tree with an element at depth
\* 2 that has element children and an element whose only child is a text
PrettifyWitness ==
  /\ Prettified /\ indent.whitespace # <<>> /\ Removed
  /\ \E p \in Elements : Len(p) = 3 /\ HasElement(NodeAt(xml, p))
  /\ \E p \in Elements : HasChild(NodeAt(xml, p)) /\ ~HasElement(NodeAt(xml, p))

(***************************************************************************)
(* The filter, the prompt to add and the ignore list.                      *)
(***************************************************************************)
Matches(pattern, f) == pattern # Unset /\ ExtName(f) = pattern

\* the filter lets through the paths that are not ignored, match includeRegex
\* when it is set and do not match excludeRegex
IsValidIff ==
  \A f \in WorkspaceFiles :
    isValid(config, ignored, f) <=>
      /\ f \notin ignored
      /\ config.includeRegex = Unset \/ Matches(config.includeRegex, f)
      /\ ~Matches(config.excludeRegex, f)

\* this step called addItem for f
AddsItem(f) ==
  \E i \in (Len(hist) + 1)..Len(hist') : hist'[i].op = "addItem" /\ hist'[i].uri = f

\* this step showed the prompt to add f
Prompts(f) ==
  /\ Len(prompts') > Len(prompts)
  /\ prompts'[Len(prompts')] = Ran("askToAdd", f, TRUE)

\* addItem is called for the files the filter lets through, and no other
FilteredAddStep == \A f \in WorkspaceFiles : AddsItem(f) => isValid(config, ignored, f)

\* C21: the filter lets through exactly the paths that are not ignored, match
\* includeRegex when it is set and do not match excludeRegex, and no add on an
\* event and no add of a directory calls addItem for a file the filter rejects
FilteredAdd == []IsValidIff /\ [][FilteredAddStep]_vars

\* a handler that adds without asking calls addItem for files the filter lets
\* through: the steps that answer no prompt
FilteredAtOnceStep == Len(prompts') >= Len(prompts) => FilteredAddStep
FilteredAtOnce == []IsValidIff /\ [][FilteredAtOnceStep]_vars

\* the user answered No to the prompt to add f, or dismissed it
Declined(f) == \E i \in 1..Len(trace) : trace[i] = Ran(No, f, TRUE)

\* this step handles the event ev, "open" or "save", for f
EventOf(ev, f) == Len(trace') > Len(trace) /\ trace'[Len(trace) + 1] = Ran(ev, f, TRUE)

NoPromptAfterNoStep ==
  \A f \in WorkspaceFiles : (Declined(f) /\ EventOf("save", f)) => (~Prompts(f) /\ ~AddsItem(f))

\* C22: once the user answered No to the prompt for a file, or dismissed it,
\* no later save of that file, which stays open, shows the prompt again or
\* calls addItem
NoPromptAfterNo == [][NoPromptAfterNoStep]_vars

\* while the status bar shows a status, a save shows no prompt and adds nothing
QuietSaveStep ==
  \A f \in WorkspaceFiles : (status # Unavailable /\ EventOf("save", f)) => (~Prompts(f) /\ ~AddsItem(f))
QuietSave == [][QuietSaveStep]_vars

\* the answer Never puts the path in the ignore list and adds no item
NeverStep ==
  \A f \in WorkspaceFiles :
    trace' = Append(trace, Ran(Never, f, TRUE)) => (f \in ignored' /\ ~AddsItem(f))

\* an open or save event for an ignored file shows no prompt and calls nothing on
\* the project; the handler, when it runs, sets the status Ignored
IgnoredEventStep ==
  \A f \in WorkspaceFiles, ev \in {"open", "save"} :
    (f \in ignored /\ EventOf(ev, f)) =>
      /\ ~Prompts(f) /\ prompts' = prompts
      /\ ~AddsItem(f) /\ hist' = hist /\ xml' = xml
      /\ status' = IF ev = "open" \/ status = Unavailable THEN Ignored ELSE status

Clears == trace' = Append(trace, Ran("clearIgnoredPaths", NoEditor, FALSE))

\* a path leaves the ignore list only when clearIgnoredPaths empties the list
KeptStep == Clears \/ ignored \subseteq ignored'

\* clearIgnoredPaths empties the list and the active document is classified
\* again, by the regular expressions and the project alone
ClearStep ==
  Clears =>
    /\ ignored' = {}
    /\ active # NoEditor =>
         status' = IF ~isValid(config, {}, active) THEN Ignored
                   ELSE IF Included(xml, active) THEN InProject ELSE NotInProject

\* an event handled for a file that is not in the list goes on to addCommand,
\* unless the regular expressions reject the file
EvaluatedStep ==
  \A f \in WorkspaceFiles, ev \in {"open", "save"} :
    (f \notin ignored /\ EventOf(ev, f) /\ (ev = "open" \/ status = Unavailable)) =>
      IF isValid(config, {}, f) THEN trace'[Len(trace) + 2] = Ran("add", f, TRUE)
      ELSE status' = Ignored /\ Len(trace') = Len(trace) + 1

IgnoredUntilClearedStep == NeverStep /\ IgnoredEventStep /\ KeptStep /\ ClearStep /\ EvaluatedStep

Returns == {i \in 1..Len(log) : log[i].op \in {"hit", "return"}}

\* the project of key was removed from the cache, or invalidated while it was
\* not cached, between the entries i and j of the log
InvalidatedBetween(key, i, j) ==
  \E k \in (i + 1)..(j - 1) :
    \/ log[k].op \in {"invalidate", "delete"} /\ log[k].key = key
    \/ log[k].op = "clear"

\* C28: between two invalidations of a project, every openProject and
\* findProject of it returns the same Csproj instance, also when two calls for
\* a project that is not cached overlap
SameInstance ==
  \A i, j \in Returns :
    (i < j /\ log[i].key = log[j].key /\ ~InvalidatedBetween(log[i].key, i, j))
      => log[i].id = log[j].id

\* calls that do not overlap are given the same instance: a call that finds the
\* project cached returns the instance the map holds
HitIsCached ==
  \A j \in Returns :
    log[j].op = "hit" =>
      \E i \in Returns : i < j /\ log[i].op = "return" /\ log[i].key = log[j].key /\ log[i].id = log[j].id

\* where the log records that the file of an instance was read
ReadAt(id) == CHOOSE k \in 1..Len(log) : log[k].op = "read" /\ log[k].id = id

\* the cache holds no instance that was read before a watcher event removed
\* its project from the cache: the next openProject reads the file again
FreshCache ==
  \A i \in 1..Len(projects) :
    ~\E k \in 1..Len(log) :
        /\ log[k].op = "invalidate" /\ log[k].key = projects[i].key /\ log[k].id # 0
        /\ ReadAt(projects[i].id) < k

\* invalidate removes the project when it is cached and reports it, does
\* nothing otherwise, and leaves the other projects in the cache
InvalidateStep ==
  \A key \in Locations :
    (Len(log') = Len(log) + 1 /\ log'[Len(log')].op = "invalidate" /\ log'[Len(log')].key = key) =>
      /\ (log'[Len(log')].id # 0) <=> (MapGet(projects, key) # 0)
      /\ MapGet(projects', key) = 0
      /\ MapGet(projects, key) = 0 => projects' = projects
      /\ \A other \in Locations \ {key} : MapGet(projects', other) = MapGet(projects, other)
      /\ UNCHANGED <<disk, instances, tasks>>
InvalidateEffect == [][InvalidateStep]_vars

\* C29: a watcher event for a cached project removes it from the cache, so that
\* the next openProject reads the file again; invalidate returns true when the
\* project was cached, does nothing and returns false otherwise, and leaves the
\* other cached projects alone
InvalidateRereads == []FreshCache /\ [][InvalidateStep]_vars

\* the instances in the cache after the first n entries of the log
CachedAt(n) ==
  {log[i].id : i \in {r \in 1..n : /\ log[r].op = "return"
                                   /\ ~\E k \in (r + 1)..n :
                                         \/ log[k].op \in {"invalidate", "delete", "return"} /\ log[k].key = log[r].key
                                         \/ log[k].op = "clear" /\ log[k].at = 0}}

\* the number of times clear saved the instance between the entries s and e
SavesOf(id, s, e) == Cardinality({k \in s..e : log[k].op = "save" /\ log[k].id = id})

\* the clear(true) that started at entry s ended at entry e
ClearRan(s, e) ==
  /\ s < e /\ log[s].op = "clear" /\ log[s].at = 1
  /\ log[e].op \in {"cleared", "rejected"}
  /\ \A k \in (s + 1)..(e - 1) : log[k].op \notin {"cleared", "rejected"}

\* C30: clear(true) ends with the cache empty, and every project that was
\* cached when it started, or was added while it ran, was saved exactly once
\* before it was removed; clear(false) empties the cache and saves nothing
ClearSavesAll ==
  /\ \A s, e \in 1..Len(log) :
       ClearRan(s, e) =>
         /\ log[e].op = "cleared"
         /\ e = Len(log) => projects = <<>>
         /\ \A id \in CachedAt(s) \cup {log[k].id : k \in {r \in s..e : log[r].op = "return"}} :
              SavesOf(id, s, e) = 1
  /\ \A s \in 1..Len(log) :
       (log[s].op = "clear" /\ log[s].at = 0) =>
         /\ log[s + 1].op = "cleared"
         /\ s + 1 = Len(log) => projects = <<>>

\* left alone, clear(true) saves each cached project once and empties the cache:
\* no save throws, and nothing else runs between its start and its end
ClearAlone(s, e) ==
  /\ ClearRan(s, e) /\ log[e].op = "cleared"
  /\ \A k \in (s + 1)..(e - 1) : log[k].op \in {"save", "delete"}
ClearSavesAllAlone ==
  \A s, e \in 1..Len(log) :
    ClearAlone(s, e) =>
      /\ e = Len(log) => projects = <<>>
      /\ \A id \in CachedAt(s) : SavesOf(id, s, e) = 1

CacheWellFormed ==
  \A i, j \in 1..Len(projects) : projects[i].key = projects[j].key => i = j

(***************************************************************************)
(* The removal decision.                                                   *)
(***************************************************************************)
\* removePending read pending[0] of an empty list
ReadOfEmpty == \E i \in 1..Len(trace) : trace[i].cmd = "TypeError"

\* C37: removePending evaluates the removal decision with a pending list that
\* is not empty: no removeCommand, run by hand on a file that is not in the
\* project or on a folder without a valid file, makes it read pending[0] of
\* an empty list, and no command raises an error, with any autoRemove
DecisionOnEntries == ~ReadOfEmpty

\* what holds: with autoRemove on or off the decision reads no entry
DecisionOnEntriesUnasked == config.autoRemove # PROMPT => ~ReadOfEmpty

(***************************************************************************)
(* Handlers of the same file.                                              *)
(***************************************************************************)
\* the items of a document whose Include is the path of uri
Copies(doc, uri) == {i \in 1..Len(ItemList(doc)) : Includes(ItemList(doc)[i], uri)}

\* C36: the project, opened without duplicates, never holds two items with
\* the same Include path, whatever open and save events of a file and answers
\* to its prompts follow each other, two handlers awaiting the prompt to add
\* the same file included
NoDuplicateItem == \A f \in WorkspaceFiles : Cardinality(Copies(xml, f)) <= 1

\* what holds: a handler that adds without asking adds no second item
NoDuplicateUnasked == config.autoAdd # PROMPT => NoDuplicateItem

(***************************************************************************)
(* The status bar.                                                         *)
(***************************************************************************)
\* what the status bar is to show for the file f
Classification(f) ==
  IF ~isValid(config, ignored, f) THEN Ignored
  ELSE IF hasItem(xml, ProjectUri, f) THEN InProject
  ELSE NotInProject

\* only file events and answers to their prompts so far: no command was run
\* on the ignored paths
OnlyHandlers == \A i \in 1..Len(trace) : trace[i].cmd \notin {"addIgnoredPath", "clearIgnoredPaths"}

\* every handler has completed: no prompt is awaiting its answer
HandlersDone == prompts = <<>>

\* C39: once every event handler has completed, the status bar shows the
\* classification of the file activated last, Ignored when the filter rejects
\* it, else InProject when the project has its item, else NotInProject (one
\* project matches every file); a handler of a file activated before, that
\* completes later, does not overwrite it
StatusOfActive ==
  (OnlyHandlers /\ HandlersDone /\ active # NoEditor) => status = Classification(active)

\* what holds: handlers that do not ask complete before the next one starts,
\* and the status is the classification of the active file
StatusOfActiveUnasked ==
  (config.autoAdd # PROMPT /\ OnlyHandlers /\ active # NoEditor) => status = Classification(active)

(***************************************************************************)
(* removeItem that matches nothing.                                        *)
(***************************************************************************)
\* this step is a removeItem that returned false
RemovesNothing == Calls("removeItem") /\ ~Threw(Last(hist')) /\ ~Last(hist').ret

\* the document has an ItemGroup without an element below it
HasEmptyGroup(doc) == \E i \in 1..Len(Groups(doc)) : ~HasElement(NodeAt(doc, Groups(doc)[i]))

NoMatchUnchangedStep == RemovesNothing => SerializeOf(xml', indent) = SerializeOf(xml, indent)

\* C33: a removeItem(p) that returns false leaves the document unchanged:
\* serialize() returns after it the text it would have returned before it, for
\* every document, one that holds an ItemGroup without element children
\* included
NoMatchUnchanged == [][NoMatchUnchangedStep]_vars

NoMatchKeepsItemsStep ==
  (RemovesNothing /\ ~HasEmptyGroup(xml)) =>
    /\ xml' = xml
    /\ SerializeOf(xml', indent) = SerializeOf(xml, indent)

\* C33 as it holds: a removeItem(p) that returns false leaves unchanged a
\* document in which every ItemGroup has an element below it
NoMatchKeepsItems == [][NoMatchKeepsItemsStep]_vars

\* C33 witness: CSP_EMPTY was given an item for src/Test1.cs, and
\* removeItem(index.html) returned false and left it in the document
NoMatchWitness ==
  /\ file = CspEmpty
  /\ hist = <<Call("addItem", "Compile", Test1, FALSE), Call("removeItem", "", Index, FALSE)>>
  /\ Included(xml, Test1)

(***************************************************************************)
(* Documents whose root element is not named Project.                      *)
(***************************************************************************)
AddedIsHeldStep ==
  Calls("addItem") =>
    /\ hasItem(xml', ProjectUri, Last(hist').uri)
    /\ Included(prettify(xml', indent), Last(hist').uri)

\* serialize() returned a text
SerializeReturns == out # <<ErrorTok>>

\* C40: on every well-formed document that can be opened, one whose root
\* element is not named Project included, addItem(t, p) makes hasItem(p) true,
\* the item is in the serialized text, and serialize() raises no error
AddItemOnAnyRoot == []SerializeReturns /\ [][AddedIsHeldStep]_vars

\* the document has an element named Project
HasProject == SelectName(Opened, "Project") # <<>>

AddedIsHeldInProjectStep == HasProject => AddedIsHeldStep

\* what holds: the same on the documents that have an element named Project
AddItemOnProject == [](HasProject => SerializeReturns) /\ [][AddedIsHeldInProjectStep]_vars

(***************************************************************************)
(* The traversal while prettify changes the tree.                          *)
(***************************************************************************)
\* the elements of a document with their depths, in document order
ElementYields(doc) == SelectSeq(getNodes(doc), LAMBDA y : isTag(y.node))

\* the elements the loop of prettify is handed on the document as it is now
Yielded == prettifyYields(xml.children, 1, 0, indent)

\* C34: while prettify trims and inserts text nodes during the traversal, its
\* loop is handed every element that is in the document when prettify starts
\* exactly once, in document order and with its depth: no element is skipped
\* and none is handed twice
EachElementOnce == Yielded = ElementYields(xml)

\* C34 witness: the project with the metadata element was given an item; the
\* new item has no text node before it, so prettify inserts one while the
\* children of the second ItemGroup are walked, and the loop is handed the
\* eight elements, Link at depth 3 and the new item last at depth 2
EachElementWitness ==
  /\ file = CspMetadata
  /\ hist = <<Call("addItem", "Compile", Test1, FALSE)>>
  /\ prettify(xml, indent) # xml
  /\ Len(Yielded) = 8
  /\ Yielded[4].depth = 3 /\ Yielded[4].node.name = "Link"
  /\ Yielded[8].depth = 2 /\ Yielded[8].node = NewItem("Compile", Test1)

(***************************************************************************)
(* removeItem for a directory, on linkedom.                                *)
(***************************************************************************)
\* the Include value of the directory dir, and whether the Include of the
\* element e is a path below it
DirectoryPath(dir) == Join(Relative(Front(ProjectUri), dir), <<BSL>>)
IsBelow(e, dir) == HasAttr(e, "Include") /\ IsPrefix(DirectoryPath(dir) \o <<BSL>>, Attr(e, "Include"))

\* this step is a removeItem(uri, true)
RemovesDirectory == Calls("removeItem") /\ Last(hist').itemType = "isDirectory"

DirectoryExactStep ==
  RemovesDirectory =>
    /\ ItemList(xml') = SelectSeq(ItemList(xml), LAMBDA e : ~IsBelow(e, Last(hist').uri))
    /\ \A i \in 1..Len(Groups(xml')) : HasElement(NodeAt(xml', Groups(xml')[i]))

\* C32: removeItem(uri, true) of the Csproj on linkedom takes out of the
\* document the items whose Include is a path below the directory, and no
\* other item, one whose path has the name of the directory elsewhere
\* included; no ItemGroup is left without an item
DirectoryExact == [][DirectoryExactStep]_vars

DirectoryGoneStep ==
  (RemovesDirectory /\ Len(DirectoryPath(Last(hist').uri)) = 1) =>
    \A i \in 1..Len(ItemList(xml')) : ~IsBelow(ItemList(xml')[i], Last(hist').uri)

\* what holds: for a directory that is a child of the project directory, no
\* item of a file below it is left
DirectoryGone == [][DirectoryGoneStep]_vars

(***************************************************************************)
(* The debounced removal.                                                  *)
(***************************************************************************)
\* where the trace records that removePending evaluated the removal decision
Decisions == {i \in 1..Len(trace) : trace[i].cmd \in {"removePending", "askToRemove", "TypeError"}}
LastDecision == IF Decisions = {} THEN 0 ELSE CHOOSE i \in Decisions : \A j \in Decisions : j <= i

\* the burst: the delete events of files since the decision was last evaluated
Burst == {i \in (LastDecision + 1)..Len(trace) :
            trace[i].cmd = "remove" /\ trace[i].isEvent /\ trace[i].uri \in WorkspaceFiles}

\* this step is the debounce timer running removePending
Fires == timer /\ ~timer'
\* this step goes on after the decision Yes
DecidesYes ==
  \/ Fires /\ config.autoRemove = ON
  \/ Len(trace') = Len(trace) + 1 /\ Last(trace') = Ran(Yes, <<>>, TRUE)

\* the calls this step made on the project
NewCalls == {k \in (Len(hist) + 1)..Len(hist') : TRUE}
PassedToRemoveItem(uri) == \E k \in NewCalls : hist'[k].op = "removeItem" /\ hist'[k].uri = uri

\* the decision is evaluated with the entries of the burst in the list
BurstListedStep ==
  Fires =>
    /\ Len(pending) >= Cardinality(Burst)
    /\ \A i \in Burst : \E k \in 1..Len(pending) : pending[k] = trace[i].uri
    /\ config.autoRemove = ON => \A i \in Burst : PassedToRemoveItem(trace[i].uri)

\* on Yes every entry of the list is passed to removeItem, and the project is
\* saved once when it lost an item and not at all otherwise
YesRemovesStep ==
  DecidesYes =>
    /\ \A k \in 1..Len(pending) : PassedToRemoveItem(pending[k])
    /\ Cardinality({k \in NewCalls : hist'[k].op = "save"})
         = IF \E k \in NewCalls : hist'[k].op = "removeItem" /\ hist'[k].ret THEN 1 ELSE 0

BurstDecidedStep == BurstListedStep /\ YesRemovesStep

\* C31: the delete events that arrive within one debounce window are decided
\* together: removePending runs once for the burst, with every entry of the
\* burst in the pending list; on Yes each is passed to removeItem and the
\* project is saved once if it lost an item; when nothing is left to run the
\* list is empty
BurstDecided == [](Quiet => pending = <<>>) /\ [][BurstDecidedStep]_vars

FirstBurstStep == Decisions = {} => BurstDecidedStep

\* what holds: the same for the first burst after the activation, and on Yes
\* for every list
FirstBurstDecided == [](Quiet => pending = <<>>) /\ [][FirstBurstStep]_vars /\ [][YesRemovesStep]_vars

(***************************************************************************)
(* Entries of the pending list.                                            *)
(***************************************************************************)
\* this step empties a pending list that held entries
ClearsList == pending # <<>> /\ pending' = <<>>

\* the removePending that goes on in this step after its save, if any
Resumed == {t \in tasks \ tasks' : t.op = "removePending"}

\* this step goes on after the decision No
DecidesNo ==
  \/ Fires /\ config.autoRemove = OFF
  \/ Len(trace') = Len(trace) + 1 /\ Last(trace') = Ran(No, <<>>, TRUE)

\* every entry the step clears was decided: discarded after a No, passed to
\* removeItem in this step, or passed to removeItem before the save that the
\* step follows
Covered ==
  \/ DecidesNo
  \/ DecidesYes /\ \A k \in 1..Len(pending) : PassedToRemoveItem(pending[k])
  \/ \E t \in Resumed : Len(pending) = t.id

\* C38: no entry of the pending list is dropped silently: an entry is cleared
\* from the list only by a decision taken while it was in the list, passed to
\* removeItem after a Yes or discarded after a No, also when it was pushed
\* while a prompt was open or while removePending awaited a save
NoSilentDrop == [][ClearsList => Covered]_vars

\* what holds: the step that takes the decision clears only entries it decided
DecisionCoversList == [][(ClearsList /\ Resumed = {}) => Covered]_vars

(***************************************************************************)
(* Updates of the project file by overlapping commands.                    *)
(***************************************************************************)
\* the files addItem was called for
AddedFiles == {hist[i].uri : i \in {j \in 1..Len(hist) : hist[j].op = "addItem"}}

\* every file addItem was called for has an item in the file of the project
AllOnDisk == \A u \in AddedFiles : Included(Parse(disk[ProjectUri]), u)

\* every addCommand began when no other was awaiting the project or a write
InTurn == \A i \in 1..Len(Begun) : Begun[i].id = 0

\* C35: no lost update: for any interleaving of addCommand calls for distinct
\* files of one project, their saves, the change events of the watcher and the
\* re-opening of the project, once all saves have completed the manifest on
\* disk holds an item for every file addItem was called for
NoLostUpdate == InFlight = {} => AllOnDisk

\* what holds: when each addCommand begins after the saves of the ones before it
\* have completed, the file holds an item for every file addItem was called for
NoLostUpdateInTurn == (InFlight = {} /\ InTurn) => AllOnDisk

UpdatesWitness ==
  /\ InFlight = {} /\ InTurn
  /\ Cardinality(AddedFiles) = 2
  /\ Len(instances) = 2
====
